---- MODULE Spec2Model ----
(***************************************************************************)
(* A model of shade-api: the event indexer (decode, reconcile, persist),   *)
(* the on-chain tree-account decoder, the merkle routes and their cache.   *)
(*                                                                         *)
(* Conventions                                                             *)
(*  - A byte buffer is a sequence of naturals in 0..255; offsets in the    *)
(*    source are 0-based, sequences here are 1-based.                      *)
(*  - A u64 read with readBigUInt64LE is kept as its 8 bytes (little       *)
(*    endian), so that no width is lost; Number() of it is the IEEE-754    *)
(*    double nearest to it (ties to even), kept as 9 little-endian bytes.  *)
(*  - A decimal string is the sequence of its digits, most significant     *)
(*    first: "137" is <<1, 3, 7>> and "0" is <<0>>.                        *)
(***************************************************************************)
EXTENDS Integers, Sequences, FiniteSets, TLC

VARIABLES
  \* ---- process configuration
  isDevnet,        \* config.isDevnet
  \* ---- the chain
  treeAccount,     \* tree PDA -> the tree-state account (present, pointer)
  \* ---- account-state decoder (fetchMerkleTreeState called on its own)
  accountInfo,     \* what connection.getAccountInfo(treePDA) resolved to
  decoded,         \* the outcome of fetchMerkleTreeState, or the pending mark
  \* ---- GET /merkle/root
  now,             \* Date.now()
  merkleRootCache, \* cache key -> entry (the Map inside createCache)
  requests,        \* the requests received so far, each with its position
  \* ---- the chain's transactions of the program
  chainTxs,        \* landed transactions, oldest first: signature, err, logMessages
  \* ---- the store
  commitments,     \* the commitments table: its rows in insertion order
  \* ---- the indexer (startIndexer, catchUpOnce, the onLogs callback)
  started,         \* startIndexer has been called
  catchUp,         \* catchUpOnce: where it stands, its signature list, its position
  subscribed,      \* the number of onLogs subscriptions registered
  timers,          \* the number of pending setTimeout(subscribe, RESUBSCRIBE_DELAY_MS)
  subscriptionLost,\* the service dropped the subscription that was registered
  liveQ,           \* signatures whose log notification awaits the callback
  upserts,         \* signatures whose upsert, issued by the callback, is in flight
  \* ---- getPathForLeafIndex called on its own
  pathReq,         \* its arguments: token, leafIndex
  pathResult,      \* what it returned, and the sibling indices it asked the store for
  \* ---- processLogLines called on its own
  logBatch,        \* its arguments: the log lines and the transaction signature
  decodedRows,     \* the rows it returned
  \* ---- GET /merkle/path
  pathHttp,        \* one request of the route, with its position and its response
  \* ---- the routes' catch blocks
  errorRuns,       \* the responses given to requests that failed internally
  \* ---- GET /merkle/proof/:commitment and GET /utxos/range
  proofHttp,       \* one request of the proof route, with its position and its response
  rangeHttp,       \* one request of the range route, with its position and its response
  \* ---- history, for stating the claims (not read by any action's guard)
  persisted,       \* the upserts that succeeded, in order: <<signature, source>>
  firstWriter,     \* <<commitment, signature>>: the upsert that first stored it
  dropped          \* the upserts that failed: <<signature, source>>

decoderVars == <<accountInfo, decoded>>

rootVars == <<now, merkleRootCache, requests>>

indexerVars ==
  <<chainTxs, commitments, started, catchUp, subscribed, timers, subscriptionLost,
    liveQ, upserts, persisted, firstWriter, dropped>>

pathVars == <<pathReq, pathResult>>

eventVars == <<logBatch, decodedRows>>

pathRouteVars == <<pathHttp>>

errorVars == <<errorRuns>>

readVars == <<proofHttp, rangeHttp>>

vars ==
  <<isDevnet, treeAccount, accountInfo, decoded, now, merkleRootCache, requests,
    chainTxs, commitments, started, catchUp, subscribed, timers, subscriptionLost,
    liveQ, upserts, pathReq, pathResult, logBatch, decodedRows, pathHttp, errorRuns,
    proofHttp, rangeHttp, persisted, firstWriter, dropped>>

(***************************************************************************)
(* Bounds of the model                                                     *)
(***************************************************************************)
\* Bytes an account image may carry beyond the minimum layout size.
MaxPad == 1

\* Requests a run of the root route receives.
MaxReq == 2

\* Milliseconds the clock advances in a run.
MaxTime == 1

\* Leaves a tree receives in a run of the root route.
MaxRoots == 1

\* Transactions of the program that land in a run of the indexer.
MaxTx == 2

\* The path builder is run for every leaf index up to this one (and for some
\* near the top of the tree).
MaxLeaf == 40

\* Leaves of the base asset the table holds when the path builder runs.
MaxIndexed == 3

\* Log lines in a batch given to processLogLines on its own.
MaxBatch == 2

\* Requests that fail internally in a run of the error handlers.
MaxRuns == 2

(***************************************************************************)
(* Bytes, integers and decimal strings                                     *)
(***************************************************************************)
Min(a, b) == IF a < b THEN a ELSE b

RECURSIVE Pow(_, _)
Pow(b, e) == IF e = 0 THEN 1 ELSE b * Pow(b, e - 1)

\* BigInt.prototype.toString(10): the canonical decimal rendering.
RECURSIVE ToDecimal(_)
ToDecimal(n) == IF n < 10 THEN <<n>> ELSE Append(ToDecimal(n \div 10), n % 10)

\* BigInt('0x' + buf.toString('hex')): the bytes read as a big-endian unsigned
\* integer. The model's buffers carry their value in the low-order bytes only.
RECURSIVE BigEndian(_)
BigEndian(buf) ==
  IF Len(buf) = 0 THEN 0
  ELSE 256 * BigEndian(SubSeq(buf, 1, Len(buf) - 1)) + buf[Len(buf)]

\* The mirror image, a mutant of the conversion: the bytes read little-endian.
RECURSIVE LittleEndian(_)
LittleEndian(buf) ==
  IF Len(buf) = 0 THEN 0 ELSE buf[1] + 256 * LittleEndian(Tail(buf))

\* The 32 bytes that hold v big-endian (v < 2^24 in this model).
Bytes32BE(v) ==
  [j \in 1..32 |-> IF j >= 30 THEN (v \div Pow(256, 32 - j)) % 256 ELSE 0]

\* The 8 bytes that hold v little-endian (v < 2^31 in this model).
U64LE(v) == [j \in 1..8 |-> IF j <= 4 THEN (v \div Pow(256, j - 1)) % 256 ELSE 0]

\* x mod m of a little-endian byte string of any length, without building x.
RECURSIVE ModLE(_, _)
ModLE(bytes, m) ==
  IF Len(bytes) = 0 THEN 0
  ELSE (bytes[1] + 256 * ModLE(Tail(bytes), m)) % m

RECURSIVE BitLen(_)
BitLen(x) == IF x = 0 THEN 0 ELSE 1 + BitLen(x \div 2)

\* Adds carry c (0 or 1) into a little-endian byte string, keeping its length
\* and appending the final carry as one more byte.
RECURSIVE AddCarry(_, _)
AddCarry(bytes, c) ==
  IF Len(bytes) = 0 THEN <<c>>
  ELSE <<(bytes[1] + c) % 256>> \o AddCarry(Tail(bytes), (bytes[1] + c) \div 256)

\* Number(x) for a BigInt x given as 8 little-endian bytes: exact below 2^53,
\* otherwise rounded to 53 significant bits, ties to even. 9 little-endian bytes.
JsNumber(b) ==
  LET msb == IF b[8] # 0 THEN 55 + BitLen(b[8])
             ELSE IF b[7] # 0 THEN 47 + BitLen(b[7]) ELSE 0
  IN IF msb <= 52 THEN b \o <<0>>
     ELSE LET s       == msb - 52
              low16   == b[1] + 256 * b[2]
              rem     == low16 % Pow(2, s)
              half    == Pow(2, s - 1)
              qOdd    == (low16 \div Pow(2, s)) % 2 = 1
              roundUp == rem > half \/ (rem = half /\ qOdd)
              low     == low16 - rem + (IF roundUp THEN Pow(2, s) ELSE 0)
          IN <<low % 256, (low \div 256) % 256>>
               \o AddCarry(SubSeq(b, 3, 8), low \div 65536)

\* The natural number a JS number holds; the model only asks for it of small
\* values (next_index), never of a rolling pointer near 2^64.
NatOf(num) == LittleEndian(num)

\* The JS number that holds the small natural n, in the form JsNumber gives.
Num(n) == U64LE(n) \o <<0>>

(***************************************************************************)
(* The tree-state account image and its decoder                            *)
(***************************************************************************)
TREE_DISCRIMINATOR == 8
TREE_AUTHORITY_LEN == 32
TREE_NEXT_INDEX_LEN == 8
TREE_SUBTREES_LEN == 26 * 32
TREE_ROOT_LEN == 32
TREE_ROOT_HISTORY_LEN == 100 * 32

TREE_NEXT_INDEX_OFF == TREE_DISCRIMINATOR + TREE_AUTHORITY_LEN
TREE_SUBTREES_OFF == TREE_NEXT_INDEX_OFF + TREE_NEXT_INDEX_LEN
TREE_ROOT_OFF == TREE_SUBTREES_OFF + TREE_SUBTREES_LEN
TREE_ROOT_HISTORY_OFF == TREE_ROOT_OFF + TREE_ROOT_LEN
TREE_ROOT_INDEX_OFF == TREE_ROOT_HISTORY_OFF + TREE_ROOT_HISTORY_LEN

\* An account image is described by what the on-chain program wrote into it:
\*   len        the number of bytes of the image
\*   nextIndex  next_index, 8 little-endian bytes
\*   rootIndex  root_index (the rolling pointer), 8 little-endian bytes
\*   sub        subtrees[i] holds the value sub + i
\*   cur        the value of the single `root` field
\*   hist       root_history[s] holds the value hist + s
\* and ByteAt gives the byte at a 0-based offset of the image.
ByteAt(img, off) ==
  IF off < TREE_NEXT_INDEX_OFF THEN 0
  ELSE IF off < TREE_SUBTREES_OFF THEN img.nextIndex[off - TREE_NEXT_INDEX_OFF + 1]
  ELSE IF off < TREE_ROOT_OFF
    THEN Bytes32BE(img.sub + ((off - TREE_SUBTREES_OFF) \div 32))
                  [((off - TREE_SUBTREES_OFF) % 32) + 1]
  ELSE IF off < TREE_ROOT_HISTORY_OFF
    THEN Bytes32BE(img.cur)[off - TREE_ROOT_OFF + 1]
  ELSE IF off < TREE_ROOT_INDEX_OFF
    THEN Bytes32BE(img.hist + ((off - TREE_ROOT_HISTORY_OFF) \div 32))
                  [((off - TREE_ROOT_HISTORY_OFF) % 32) + 1]
  ELSE IF off < TREE_ROOT_INDEX_OFF + 8
    THEN img.rootIndex[off - TREE_ROOT_INDEX_OFF + 1]
  ELSE 0

\* data.slice(from, to): the bytes from..to-1, cut at the end of the buffer.
Slice(img, from, to) ==
  [k \in 1..(IF Min(to, img.len) > from THEN Min(to, img.len) - from ELSE 0)
     |-> ByteAt(img, from + k - 1)]

\* data.readBigUInt64LE(off)
ReadBigUInt64LE(img, off) == [k \in 1..8 |-> ByteAt(img, off + k - 1)]

bytes32ToDecimalString(buf) == ToDecimal(BigEndian(buf))

\* The three outcomes of fetchMerkleTreeState, in one record shape.
NullOutcome == [kind |-> "null", root |-> <<>>, nextIndex |-> 0, subtrees |-> <<>>]

ThrowOutcome == [kind |-> "throw", root |-> <<>>, nextIndex |-> 0, subtrees |-> <<>>]

StateOutcome(root, nextIndex, subtrees) ==
  [kind |-> "state", root |-> root, nextIndex |-> nextIndex, subtrees |-> subtrees]

\* Number(data.readBigUInt64LE(TREE_ROOT_INDEX_OFF)) % 100
RootIndexOf(data) == ModLE(JsNumber(ReadBigUInt64LE(data, TREE_ROOT_INDEX_OFF)), 100)

\* The decoding of an image that passed the length check.
DecodeTree(data) ==
  LET nextIndex      == NatOf(JsNumber(ReadBigUInt64LE(data, TREE_NEXT_INDEX_OFF)))
      rootIndex      == RootIndexOf(data)
      rootHistoryOff == TREE_ROOT_HISTORY_OFF + rootIndex * 32
      rootStr        == bytes32ToDecimalString(Slice(data, rootHistoryOff, rootHistoryOff + 32))
      subtrees       == [i \in 1..26 |->
                           bytes32ToDecimalString(
                             Slice(data, TREE_SUBTREES_OFF + (i - 1) * 32,
                                   TREE_SUBTREES_OFF + (i - 1) * 32 + 32))]
  IN StateOutcome(rootStr, nextIndex, subtrees)

\* A mutant: an absent account reported as a structural error.
fetchMerkleTreeStateAbsentThrows(info) ==
  IF ~info.present THEN ThrowOutcome
  ELSE IF info.data.len < TREE_ROOT_INDEX_OFF + 8 THEN ThrowOutcome
  ELSE DecodeTree(info.data)

\* A mutant: the length check one field short (the rolling pointer forgotten).
fetchMerkleTreeStateShortCheck(info) ==
  IF ~info.present THEN NullOutcome
  ELSE IF info.data.len < TREE_ROOT_INDEX_OFF THEN ThrowOutcome
  ELSE DecodeTree(info.data)

\* fetchMerkleTreeState, from the account info getAccountInfo resolved to:
\* info.present is FALSE for null (no such account).
fetchMerkleTreeState(info) ==
  IF ~info.present THEN NullOutcome
  ELSE IF info.data.len < TREE_ROOT_INDEX_OFF + 8 THEN ThrowOutcome
  ELSE DecodeTree(info.data)

(***************************************************************************)
(* The decoder on its own: one account info in, one outcome out            *)
(***************************************************************************)
\* The smallest image the decoder accepts: 8 + 32 + 8 + 26*32 + 32 + 100*32 + 8.
MinImageLen == TREE_ROOT_INDEX_OFF + 8

\* Rolling pointers: below, at and above the ring size, across a byte
\* boundary, and at and above 2^53, where Number() starts to round:
\* 2^53, 2^53 + 1, 2^53 + 3 and 2^64 - 1.
PointerInputs ==
  { U64LE(0), U64LE(37), U64LE(99), U64LE(100), U64LE(137), U64LE(255),
    U64LE(256), U64LE(70001),
    <<0, 0, 0, 0, 0, 0, 32, 0>>, <<1, 0, 0, 0, 0, 0, 32, 0>>,
    <<3, 0, 0, 0, 0, 0, 32, 0>>,
    <<255, 255, 255, 255, 255, 255, 255, 255>> }

ImageLens == {0, 8, TREE_ROOT_INDEX_OFF, MinImageLen - 1} \cup (MinImageLen..(MinImageLen + MaxPad))

Images ==
  [ len : ImageLens, nextIndex : {U64LE(0), U64LE(5), U64LE(300)},
    rootIndex : PointerInputs, sub : {0, 500}, cur : {0, 1037}, hist : {1000} ]

NoImage ==
  [len |-> 0, nextIndex |-> U64LE(0), rootIndex |-> U64LE(0), sub |-> 0, cur |-> 0, hist |-> 0]

\* getAccountInfo resolves to null (present = FALSE) or to an account with data.
AccountInfos ==
  {[present |-> FALSE, data |-> NoImage]} \cup [present : {TRUE}, data : Images]

Pending == [kind |-> "pending", root |-> <<>>, nextIndex |-> 0, subtrees |-> <<>>]

(***************************************************************************)
(* Tokens and mints on the read side (routes/merkle)                       *)
(***************************************************************************)
DEVNET_MINTS ==
  [ sol   |-> "11111111111111111111111111111112",
    usdc  |-> "DWvrXGqTYq1SW9ey857z1nXBxSxihwxdFyQfaRunsAXa",
    usdt  |-> "EcFc2cMyZxaKBkFK1XooxiyDyCPneLXiMwSJiVY6eTad",
    yesa  |-> "EwtK6Bydxsm4vAvvMiEG3ymtkJ7WToRpQdeV45wB1Qpa",
    zec   |-> "Vu3Lcx3chdCHmy9KCCdd19DdJsLejHAZxm1E1bTgE16",
    ore   |-> "6zxkY8UygHKBf64LJDXnzcYr9wdvyqScmj7oGPBFw58Z",
    store |-> "5MvqBFU5zeHaEfRuAFW2RhqidHLb7Ejsa6sUwPQQXcj1" ]

MAINNET_MINTS ==
  [ sol   |-> "11111111111111111111111111111112",
    usdc  |-> "EPjFWdd5AufqSSqeM2qN1xzybapC8G4wEGGkZwyTDt1v",
    usdt  |-> "Es9vMFrzaCERmJfrF4H2FYD4KCoNkY11McCe8BenwNYB",
    yesa  |-> "USD1ttGY1N17NEEHLmELoaybftRBUSErhqYiQzvEmuB",
    zec   |-> "A7bdiYdS5GjqGFtxf17ppRHtDKPkkRqbKtR27dxvQXaS",
    ore   |-> "oreoU2P8bN6jkk3jbaiVxYnG1dCXcYxwhwyK9jSybcp",
    store |-> "sTorERYB6xAZ1SSbwpK3zoK2EEwbBrc7TZAzg1uCGiH" ]

MINT_BY_TOKEN(devnet) == IF devnet THEN DEVNET_MINTS ELSE MAINNET_MINTS

ALLOWED_TOKENS == {"sol", "usdc", "usdt", "yesa", "zec", "ore", "store"}

\* A query parameter that is not a string (omitted).
NoToken == "<undefined>"

\* The raw token parameters a request may carry.
RawTokens == {NoToken, "sol", "usdc", "USDC", "doge"}

\* String.prototype.toLowerCase on the raw tokens of the model.
ToLowerCase(str) == IF str = "USDC" THEN "usdc" ELSE str

isValidToken(token) == token # NoToken /\ ToLowerCase(token) \in ALLOWED_TOKENS

sanitizeToken(token) == IF ~isValidToken(token) THEN "sol" ELSE ToLowerCase(token)

\* No mint: the base-asset tree.
NoMint == "<no mint>"

getMintFromToken(devnet, token) ==
  IF token = "sol" THEN NoMint
  ELSE IF token \notin DOMAIN MINT_BY_TOKEN(devnet) THEN NoMint
  ELSE MINT_BY_TOKEN(devnet)[token]

\* getTreeAccountPDA: the address derived from the seed and the mint, one per
\* mint and one for the base asset; the model names it by the mint.
getTreeAccountPDA(mint) == mint

(***************************************************************************)
(* The chain's tree-state accounts                                         *)
(***************************************************************************)
\* The trees the read side can ask for.
TreeKeys(devnet) == {NoMint, MINT_BY_TOKEN(devnet).usdc}

\* The image of a tree that holds n leaves: with each leaf the program
\* advances root_index round the ring and writes the new root both to the
\* ring slot and to the root field.
TreeImage(n) ==
  [ len |-> MinImageLen, nextIndex |-> U64LE(n), rootIndex |-> U64LE(n % 100),
    sub |-> 500, cur |-> 1000 + (n % 100), hist |-> 1000 ]

\* connection.getAccountInfo(treePDA) served from the chain's current state.
getAccountInfo(chain, pda) ==
  IF chain[pda].present THEN [present |-> TRUE, data |-> TreeImage(chain[pda].leaves)]
  ELSE [present |-> FALSE, data |-> NoImage]

(***************************************************************************)
(* lib/cache: createCache(ttlMs)                                           *)
(***************************************************************************)
merkleCacheTtlMs == 0

NoData == [root |-> <<>>, nextIndex |-> 0, subtrees |-> <<>>]

NoEntry == [has |-> FALSE, value |-> NoData, expires |-> 0]

\* get: the entry's value, or a miss when there is none or it has expired.
CacheHit(store, key, t) == store[key].has /\ ~(t > store[key].expires)

\* get deletes an expired entry it finds.
CacheAfterGet(store, key, t) ==
  IF store[key].has /\ t > store[key].expires
    THEN [store EXCEPT ![key] = NoEntry]
    ELSE store

\* set
CacheSet(store, key, value, t, ttlMs) ==
  [store EXCEPT ![key] = [has |-> TRUE, value |-> value, expires |-> t + ttlMs]]

(***************************************************************************)
(* GET /merkle/root                                                        *)
(***************************************************************************)
CacheKeys == {"root:sol", "root:usdc"}

cacheKey(token) == IF token = "usdc" THEN "root:usdc" ELSE "root:sol"

DataOf(outcome) ==
  [root |-> outcome.root, nextIndex |-> outcome.nextIndex, subtrees |-> outcome.subtrees]

NoInfo == [present |-> FALSE, data |-> NoImage]

\* A request of the root route: pc is where its handler stands,
\*   "awaitRpc"  getAccountInfo is in flight
\*   "resume"    getAccountInfo has resolved to info; the handler has not resumed
\*   "done"      the response (status, body) is sent
\* and fetched records that this request's own getAccountInfo resolved.
Request(raw, token, pc, fetched, info, status, body) ==
  [ raw |-> raw, token |-> token, pc |-> pc, fetched |-> fetched, info |-> info,
    status |-> status, body |-> body ]

\* The handler up to its first await: the token, the cache lookup, and either
\* the response from the cache or the call of fetchMerkleTreeState.
RootStart(raw) ==
  /\ Len(requests) < MaxReq
  /\ LET token == sanitizeToken(raw)
         key   == cacheKey(token)
     IN /\ merkleRootCache' = CacheAfterGet(merkleRootCache, key, now)
        /\ requests' = Append(requests,
             IF CacheHit(merkleRootCache, key, now)
               THEN Request(raw, token, "done", FALSE, NoInfo, 200, merkleRootCache[key].value)
               ELSE Request(raw, token, "awaitRpc", FALSE, NoInfo, 0, NoData))
  /\ UNCHANGED <<treeAccount, now, isDevnet, decoderVars, indexerVars, pathVars, eventVars, pathRouteVars, errorVars,
                 readVars>>

\* The RPC node answers getAccountInfo from the chain as it is then.
RootRpc(i) ==
  /\ requests[i].pc = "awaitRpc"
  /\ requests' = [requests EXCEPT ![i].pc = "resume", ![i].fetched = TRUE,
       ![i].info = getAccountInfo(treeAccount,
                     getTreeAccountPDA(getMintFromToken(isDevnet, requests[i].token)))]
  /\ UNCHANGED <<treeAccount, now, merkleRootCache, isDevnet, decoderVars, indexerVars, pathVars, eventVars, pathRouteVars, errorVars,
                 readVars>>

\* getAccountInfo rejects: the catch block answers 500.
RootRpcFail(i) ==
  /\ requests[i].pc = "awaitRpc"
  /\ requests' = [requests EXCEPT ![i].pc = "done", ![i].status = 500]
  /\ UNCHANGED <<treeAccount, now, merkleRootCache, isDevnet, decoderVars, indexerVars, pathVars, eventVars, pathRouteVars, errorVars,
                 readVars>>

\* The handler after the await: decode, the null branches, cache set, respond.
RootResume(i) ==
  /\ requests[i].pc = "resume"
  /\ LET r     == requests[i]
         mint  == getMintFromToken(isDevnet, r.token)
         state == fetchMerkleTreeState(r.info)
         data  == IF state.kind = "null"
                    THEN [root |-> <<0>>, nextIndex |-> 0, subtrees |-> <<>>]
                    ELSE DataOf(state)
     IN IF state.kind = "throw"
          THEN /\ requests' = [requests EXCEPT ![i].pc = "done", ![i].status = 500]
               /\ UNCHANGED merkleRootCache
        ELSE IF state.kind = "null" /\ mint # NoMint
          THEN /\ requests' = [requests EXCEPT ![i].pc = "done", ![i].status = 404]
               /\ UNCHANGED merkleRootCache
        ELSE /\ merkleRootCache' =
                  CacheSet(merkleRootCache, cacheKey(r.token), data, now, merkleCacheTtlMs)
             /\ requests' = [requests EXCEPT ![i].pc = "done", ![i].status = 200,
                                             ![i].body = data]
  /\ UNCHANGED <<treeAccount, now, isDevnet, decoderVars, indexerVars, pathVars, eventVars, pathRouteVars, errorVars,
                 readVars>>

\* A millisecond passes.
Tick ==
  /\ now < MaxTime
  /\ now' = now + 1
  /\ UNCHANGED <<treeAccount, merkleRootCache, requests, isDevnet, decoderVars, indexerVars, pathVars, eventVars, pathRouteVars, errorVars,
                 readVars>>

\* The program appends to a tree: a new root, the pointer advanced.
ChainAppend(pda) ==
  /\ treeAccount[pda].present
  /\ treeAccount[pda].leaves < MaxRoots
  /\ treeAccount' = [treeAccount EXCEPT ![pda].leaves = @ + 1]
  /\ UNCHANGED <<now, merkleRootCache, requests, isDevnet, decoderVars, indexerVars, pathVars, eventVars, pathRouteVars, errorVars,
                 readVars>>

\* The tree account of a token is created.
ChainInitialize(pda) ==
  /\ ~treeAccount[pda].present
  /\ treeAccount' = [treeAccount EXCEPT ![pda].present = TRUE]
  /\ UNCHANGED <<now, merkleRootCache, requests, isDevnet, decoderVars, indexerVars, pathVars, eventVars, pathRouteVars, errorVars,
                 readVars>>

(***************************************************************************)
(* The event decoder (indexer): discriminators, layouts, processLogLines   *)
(***************************************************************************)
\* eventDiscriminator('CommitmentData'): sha256("event:CommitmentData")[0..7]
DISCRIMINATOR_COMMITMENT == <<13, 110, 215, 127, 244, 62, 234, 34>>

\* eventDiscriminator('SplCommitmentData')
DISCRIMINATOR_SPL_COMMITMENT == <<236, 10, 189, 217, 173, 102, 131, 85>>

SOL_MINT == "So11111111111111111111111111111111111111112"

MAINNET_MINT_TO_TOKEN ==
  ( "11111111111111111111111111111112" :> "sol" @@
    SOL_MINT :> "sol" @@
    "EPjFWdd5AufqSSqeM2qN1xzybapC8G4wEGGkZwyTDt1v" :> "usdc" @@
    "USD1ttGY1N17NEEHLmELoaybftRBUSErhqYiQzvEmuB" :> "yesa" )

DEVNET_MINT_TO_TOKEN ==
  ( "11111111111111111111111111111112" :> "sol" @@
    SOL_MINT :> "sol" @@
    "DWvrXGqTYq1SW9ey857z1nXBxSxihwxdFyQfaRunsAXa" :> "usdc" @@
    "EwtK6Bydxsm4vAvvMiEG3ymtkJ7WToRpQdeV45wB1Qpa" :> "yesa" @@
    "GykHjnHqwNsFmyY2wFT1drprpm1SZWR69CKPMUSFZBvH" :> "yesa" )

MAINNET_TOKEN_TO_MINT ==
  [ sol  |-> SOL_MINT,
    usdc |-> "EPjFWdd5AufqSSqeM2qN1xzybapC8G4wEGGkZwyTDt1v",
    yesa |-> "USD1ttGY1N17NEEHLmELoaybftRBUSErhqYiQzvEmuB" ]

DEVNET_TOKEN_TO_MINT ==
  [ sol  |-> SOL_MINT,
    usdc |-> "DWvrXGqTYq1SW9ey857z1nXBxSxihwxdFyQfaRunsAXa",
    yesa |-> "EwtK6Bydxsm4vAvvMiEG3ymtkJ7WToRpQdeV45wB1Qpa" ]

MINT_TO_TOKEN(devnet) == IF devnet THEN DEVNET_MINT_TO_TOKEN ELSE MAINNET_MINT_TO_TOKEN

TOKEN_TO_MINT(devnet) == IF devnet THEN DEVNET_TOKEN_TO_MINT ELSE MAINNET_TOKEN_TO_MINT

\* The mints that occur in the model. A mint's 32 bytes are modelled as 31
\* zero bytes and its position in this list; PublicKeyToString (base58) is
\* the way back from the bytes to the address.
MintList ==
  << "DWvrXGqTYq1SW9ey857z1nXBxSxihwxdFyQfaRunsAXa",
     "EPjFWdd5AufqSSqeM2qN1xzybapC8G4wEGGkZwyTDt1v",
     "EcFc2cMyZxaKBkFK1XooxiyDyCPneLXiMwSJiVY6eTad",
     "Es9vMFrzaCERmJfrF4H2FYD4KCoNkY11McCe8BenwNYB",
     "EwtK6Bydxsm4vAvvMiEG3ymtkJ7WToRpQdeV45wB1Qpa",
     "GykHjnHqwNsFmyY2wFT1drprpm1SZWR69CKPMUSFZBvH",
     "USD1ttGY1N17NEEHLmELoaybftRBUSErhqYiQzvEmuB" >>

MintBytes(mint) ==
  [j \in 1..32 |-> IF j = 32 THEN CHOOSE k \in DOMAIN MintList : MintList[k] = mint ELSE 0]

\* new PublicKey(mintBytes).toString()
PublicKeyToString(bytes) == MintList[bytes[32]]

\* The 4 bytes that hold v little-endian (v < 2^16 in this model).
U32LE(v) == <<v % 256, (v \div 256) % 256, 0, 0>>

\* buf.toString('hex'): two hex digits a byte, as their values 0..15.
RECURSIVE ToHex(_)
ToHex(buf) ==
  IF Len(buf) = 0 THEN <<>>
  ELSE <<buf[1] \div 16, buf[1] % 16>> \o ToHex(Tail(buf))

\* buf.slice(from, to) of a byte sequence, 0-based, cut at the buffer's end.
BufSlice(buf, from, to) == SubSeq(buf, from + 1, Min(to, Len(buf)))

\* commitmentToDecimal
commitmentToDecimal(commitment) ==
  IF Len(commitment) # 32 THEN <<0>> ELSE ToDecimal(BigEndian(commitment))

\* What a parser returns, in one record shape; ok = FALSE is null. index is
\* the JS number Number(data.readBigUInt64LE(8)), in the form JsNumber gives.
NoParse ==
  [ ok |-> FALSE, hasMint |-> FALSE, index |-> Num(0), mintAddress |-> "",
    commitment |-> <<>>, encryptedOutput |-> <<>> ]

\* A mutant of parseCommitmentData: the declared ciphertext length is not
\* checked against the buffer.
parseCommitmentDataNoOverrunCheck(data) ==
  LET minLen == 8 + 8 + 32 + 4
  IN IF Len(data) < minLen THEN NoParse
     ELSE LET index  == JsNumber(BufSlice(data, 8, 16))
              encLen == LittleEndian(BufSlice(data, 48, 52))
          IN [ ok |-> TRUE, hasMint |-> FALSE, index |-> index, mintAddress |-> "",
               commitment |-> commitmentToDecimal(BufSlice(data, 16, 48)),
               encryptedOutput |-> ToHex(BufSlice(data, 52, 52 + encLen)) ]

\* parseCommitmentData: index(8) + commitment(32) + encLen(4) + encrypted_output
parseCommitmentData(data) ==
  LET minLen == 8 + 8 + 32 + 4
  IN IF Len(data) < minLen THEN NoParse
     ELSE LET index  == JsNumber(BufSlice(data, 8, 16))
              encLen == LittleEndian(BufSlice(data, 48, 52))
          IN IF 52 + encLen > Len(data) THEN NoParse
             ELSE [ ok |-> TRUE, hasMint |-> FALSE, index |-> index, mintAddress |-> "",
                    commitment |-> commitmentToDecimal(BufSlice(data, 16, 48)),
                    encryptedOutput |-> ToHex(BufSlice(data, 52, 52 + encLen)) ]

\* parseSplCommitmentData: index(8) + mint(32) + commitment(32) + encLen(4) + ...
parseSplCommitmentData(data) ==
  LET minLen == 8 + 8 + 32 + 32 + 4
  IN IF Len(data) < minLen THEN NoParse
     ELSE LET index  == JsNumber(BufSlice(data, 8, 16))
              encLen == LittleEndian(BufSlice(data, 80, 84))
          IN IF 84 + encLen > Len(data) THEN NoParse
             ELSE [ ok |-> TRUE, hasMint |-> TRUE, index |-> index,
                    mintAddress |-> PublicKeyToString(BufSlice(data, 16, 48)),
                    commitment |-> commitmentToDecimal(BufSlice(data, 48, 80)),
                    encryptedOutput |-> ToHex(BufSlice(data, 84, 84 + encLen)) ]

\* A log line is either plain text (no "Program data: " in it) or carries a
\* payload, described by what the program (or anyone) wrote:
\*   disc, index, mint (spl layout only), cm, encLen, enc, and cut, the
\*   number of bytes of the payload that the line holds.
\* Base64 is the transport: Buffer.from(dataEncoded, 'base64') gives the bytes.
PayloadBytes(p) ==
  SubSeq(p.disc \o p.index \o (IF p.spl THEN MintBytes(p.mint) ELSE <<>>)
           \o Bytes32BE(p.cm) \o U32LE(p.encLen) \o p.enc,
         1, p.cut)

TextLine ==
  [ hasData |-> FALSE, disc |-> <<>>, index |-> <<>>, spl |-> FALSE, mint |-> "",
    cm |-> 0, encLen |-> 0, enc |-> <<>>, cut |-> 0 ]

\* A mutant of the token lookup: no fallback to the base asset.
TokenOfNoFallback(devnet, parsed) ==
  IF parsed.hasMint
    THEN IF parsed.mintAddress \in DOMAIN MINT_TO_TOKEN(devnet)
           THEN MINT_TO_TOKEN(devnet)[parsed.mintAddress] ELSE "unknown"
    ELSE "sol"

\* The token a parsed record is filed under (part of processLogLines).
TokenOf(devnet, parsed) ==
  IF parsed.hasMint
    THEN IF parsed.mintAddress \in DOMAIN MINT_TO_TOKEN(devnet)
           THEN MINT_TO_TOKEN(devnet)[parsed.mintAddress] ELSE "sol"
    ELSE "sol"

\* What processLogLines makes of one log line up to `if (!parsed) continue`:
\* the parser's result for the line's discriminator, or null.
ParseOfLine(log) ==
  IF ~log.hasData THEN NoParse
  ELSE LET data == PayloadBytes(log)
       IN IF Len(data) < 8 THEN NoParse
          ELSE LET disc == SubSeq(data, 1, 8)
               IN IF disc = DISCRIMINATOR_COMMITMENT THEN parseCommitmentData(data)
                  ELSE IF disc = DISCRIMINATOR_SPL_COMMITMENT
                    THEN parseSplCommitmentData(data)
                  ELSE NoParse

\* The row processLogLines pushes for one log line, or none.
RowsOfLine(devnet, log, transactionSignature) ==
  LET parsed == ParseOfLine(log)
  IN IF ~parsed.ok THEN <<>>
     ELSE LET token == TokenOf(devnet, parsed)
          IN << [ token |-> token,
                  commitment_index |-> parsed.index,
                  commitment |-> parsed.commitment,
                  encrypted_output |-> parsed.encryptedOutput,
                  mint_address |->
                    IF token \in DOMAIN TOKEN_TO_MINT(devnet)
                      THEN TOKEN_TO_MINT(devnet)[token] ELSE SOL_MINT,
                  transaction_signature |-> transactionSignature ] >>

RECURSIVE processLogLines(_, _, _)
processLogLines(devnet, logLines, transactionSignature) ==
  IF Len(logLines) = 0 THEN <<>>
  ELSE RowsOfLine(devnet, logLines[1], transactionSignature)
         \o processLogLines(devnet, Tail(logLines), transactionSignature)

(***************************************************************************)
(* processLogLines on its own: the batches it is given                     *)
(***************************************************************************)
NoBatch == [lines |-> <<>>, transactionSignature |-> 0]

NotDecoded == [done |-> FALSE, rows |-> <<>>, parsed |-> <<>>]

\* A "Program data: " line whose payload was built with the base-asset layout.
BaseLine(disc, index, cm, encLen, enc, cut) ==
  [ hasData |-> TRUE, disc |-> disc, index |-> index, spl |-> FALSE, mint |-> "",
    cm |-> cm, encLen |-> encLen, enc |-> enc, cut |-> cut ]

\* A "Program data: " line whose payload was built with the token-asset layout.
SplLine(mint, index, cm, encLen, enc, cut) ==
  [ hasData |-> TRUE, disc |-> DISCRIMINATOR_SPL_COMMITMENT, index |-> index, spl |-> TRUE,
    mint |-> mint, cm |-> cm, encLen |-> encLen, enc |-> enc, cut |-> cut ]

\* The log lines of the batches: text; base-asset events that are whole (with
\* ciphertext, without, with bytes after it, with a leaf index of 2^53 + 1),
\* cut short (at 51, 8 and 5 bytes) or declaring more ciphertext than they
\* hold; token-asset events of known and unknown mints, whole, cut short (at
\* 83 and 60 bytes) or overrunning; and an event of another discriminator.
LineInputs ==
  { TextLine,
    BaseLine(DISCRIMINATOR_COMMITMENT, U64LE(0), 7, 2, <<170, 187>>, 54),
    BaseLine(DISCRIMINATOR_COMMITMENT, U64LE(5), 300, 0, <<>>, 52),
    BaseLine(DISCRIMINATOR_COMMITMENT, U64LE(1), 8, 1, <<170, 187>>, 54),
    BaseLine(DISCRIMINATOR_COMMITMENT, <<1, 0, 0, 0, 0, 0, 32, 0>>, 11, 2, <<170, 187>>, 54),
    BaseLine(DISCRIMINATOR_COMMITMENT, U64LE(2), 9, 2, <<170, 187>>, 51),
    BaseLine(DISCRIMINATOR_COMMITMENT, U64LE(2), 9, 2, <<170, 187>>, 8),
    BaseLine(DISCRIMINATOR_COMMITMENT, U64LE(2), 9, 2, <<170, 187>>, 5),
    BaseLine(DISCRIMINATOR_COMMITMENT, U64LE(3), 10, 3, <<170, 187>>, 54),
    BaseLine(<<1, 2, 3, 4, 5, 6, 7, 8>>, U64LE(4), 16, 2, <<170, 187>>, 54),
    SplLine("DWvrXGqTYq1SW9ey857z1nXBxSxihwxdFyQfaRunsAXa", U64LE(0), 12, 2, <<204, 221>>, 86),
    SplLine("EPjFWdd5AufqSSqeM2qN1xzybapC8G4wEGGkZwyTDt1v", U64LE(1), 13, 2, <<204, 221>>, 86),
    SplLine("EcFc2cMyZxaKBkFK1XooxiyDyCPneLXiMwSJiVY6eTad", U64LE(0), 14, 2, <<204, 221>>, 86),
    SplLine("GykHjnHqwNsFmyY2wFT1drprpm1SZWR69CKPMUSFZBvH", U64LE(0), 15, 0, <<>>, 84),
    SplLine("DWvrXGqTYq1SW9ey857z1nXBxSxihwxdFyQfaRunsAXa", U64LE(2), 17, 2, <<204, 221>>, 83),
    SplLine("DWvrXGqTYq1SW9ey857z1nXBxSxihwxdFyQfaRunsAXa", U64LE(2), 17, 2, <<204, 221>>, 60),
    SplLine("DWvrXGqTYq1SW9ey857z1nXBxSxihwxdFyQfaRunsAXa", U64LE(3), 18, 3, <<204, 221>>, 86) }

\* The batches: every sequence of one to MaxBatch of these lines.
RECURSIVE BatchesOfLen(_)
BatchesOfLen(n) ==
  IF n = 0 THEN {<<>>}
  ELSE {Append(b, l) : b \in BatchesOfLen(n - 1), l \in LineInputs}

Batches == UNION {BatchesOfLen(n) : n \in 1..MaxBatch}

(***************************************************************************)
(* The commitments table and the upsert                                    *)
(***************************************************************************)
\* The table is the sequence of its rows in insertion order (id = position).
HasCommitment(table, c) == \E i \in DOMAIN table : table[i].commitment = c

\* A mutant: a plain insert, no conflict target.
RECURSIVE UpsertNoConflict(_, _)
UpsertNoConflict(table, rows) ==
  IF Len(rows) = 0 THEN table ELSE UpsertNoConflict(Append(table, rows[1]), Tail(rows))

\* A mutant: ignoreDuplicates false, the conflicting row is overwritten.
RECURSIVE UpsertMerge(_, _)
UpsertMerge(table, rows) ==
  IF Len(rows) = 0 THEN table
  ELSE UpsertMerge(
         IF HasCommitment(table, rows[1].commitment)
           THEN [i \in DOMAIN table |->
                   IF table[i].commitment = rows[1].commitment THEN rows[1] ELSE table[i]]
           ELSE Append(table, rows[1]),
         Tail(rows))

\* A mutant: the conflicting row is deleted and the new one inserted.
RECURSIVE UpsertReplace(_, _)
UpsertReplace(table, rows) ==
  IF Len(rows) = 0 THEN table
  ELSE UpsertReplace(
         Append(SelectSeq(table, LAMBDA r : r.commitment # rows[1].commitment), rows[1]),
         Tail(rows))

\* A mutant: the conflict target is (transaction_signature, commitment).
RECURSIVE UpsertOnTxCommitment(_, _)
UpsertOnTxCommitment(table, rows) ==
  IF Len(rows) = 0 THEN table
  ELSE UpsertOnTxCommitment(
         IF \E i \in DOMAIN table :
              /\ table[i].commitment = rows[1].commitment
              /\ table[i].transaction_signature = rows[1].transaction_signature
           THEN table ELSE Append(table, rows[1]),
         Tail(rows))

\* db.from('commitments').upsert(rows, { onConflict: 'commitment',
\* ignoreDuplicates: true }): INSERT ... ON CONFLICT (commitment) DO NOTHING,
\* row by row, a row of the same statement counting as a conflict.
RECURSIVE Upsert(_, _)
Upsert(table, rows) ==
  IF Len(rows) = 0 THEN table
  ELSE Upsert(
         IF HasCommitment(table, rows[1].commitment) THEN table ELSE Append(table, rows[1]),
         Tail(rows))

(***************************************************************************)
(* The chain's transactions and the indexer                                *)
(***************************************************************************)
CATCH_UP_LIMIT == 50

RESUBSCRIBE_DELAY_MS == 5000

\* The trees deposits go to: the base asset's, the network's usdc tree (a
\* mint the indexer's table knows) and its usdt tree (a mint it does not).
IndexerTrees(devnet) ==
  {NoMint, MINT_BY_TOKEN(devnet).usdc, MINT_BY_TOKEN(devnet).usdt}

\* The "Program data: " line the program logs for a leaf it appended: the
\* CommitmentData event for the base asset, SplCommitmentData for a mint,
\* with the ciphertext standing for the note's encrypted output.
EventLine(pda, leaf, cm, signature) ==
  [ hasData |-> TRUE,
    disc |-> IF pda = NoMint THEN DISCRIMINATOR_COMMITMENT ELSE DISCRIMINATOR_SPL_COMMITMENT,
    index |-> U64LE(leaf), spl |-> pda # NoMint, mint |-> IF pda = NoMint THEN "" ELSE pda,
    cm |-> cm, encLen |-> 2, enc |-> <<170, signature>>,
    cut |-> IF pda = NoMint THEN 54 ELSE 86 ]

\* The log messages of a transaction that appends the commitments cms to a
\* tree which holds `leaves` leaves: the instruction's text line, then one
\* event a leaf, with consecutive leaf indices.
TxLogs(pda, leaves, cms, signature) ==
  <<TextLine>> \o [k \in 1..Len(cms) |-> EventLine(pda, leaves + k - 1, cms[k], signature)]

\* catchUpOnce's position:
\*   "none"        not called
\*   "listing"     getSignaturesForAddress is in flight
\*   "fetching"    getParsedTransaction(sigs[pos]) is in flight
\*   "persisting"  the upsert of sigs[pos]'s rows is in flight
\*   "done"        returned; failed tells whether through its catch block
NotStarted == [pc |-> "none", sigs |-> <<>>, pos |-> 0, failed |-> FALSE]

\* The rows indexLogs derives from a landed transaction.
TxRows(sig) == processLogLines(isDevnet, chainTxs[sig].logMessages, chainTxs[sig].signature)

\* A mutant of the signature listing: the limit is not applied.
SignaturesForAddressNoLimit(txs, limit) ==
  [k \in 1..Len(txs) |-> txs[Len(txs) - k + 1].signature]

\* getSignaturesForAddress(programId, { limit }): newest first, at most limit.
SignaturesForAddress(txs, limit) ==
  [k \in 1..Min(Len(txs), limit) |-> txs[Len(txs) - k + 1].signature]

\* The commitments of rows that the table does not hold yet, with who brings them.
NewWriters(table, rows, sig) ==
  { <<rows[k].commitment, sig>> : k \in {j \in DOMAIN rows : ~HasCommitment(table, rows[j].commitment)} }

\* A mutant of indexLogs: a failed upsert leaves the batch's first row behind.
indexLogsPartial(table, rows, storeOk) ==
  IF Len(rows) = 0 THEN table
  ELSE IF storeOk THEN Upsert(table, rows) ELSE Upsert(table, <<rows[1]>>)

\* indexLogs from its upsert on: the statement runs as a whole (storeOk) or
\* fails as a whole; an error result is dropped, a thrown error is caught
\* and logged, and indexLogs resolves either way.
indexLogs(table, rows, storeOk) ==
  IF Len(rows) = 0 THEN table
  ELSE IF storeOk THEN Upsert(table, rows) ELSE table

\* A user's transaction lands: cms are appended to the tree pda; a registered
\* subscription that is still alive is notified of its logs.
Deposit(pda, cms) ==
  /\ Len(chainTxs) < MaxTx
  /\ treeAccount[pda].present
  /\ LET sig == Len(chainTxs) + 1
     IN /\ chainTxs' = Append(chainTxs,
             [ signature |-> sig, err |-> FALSE,
               logMessages |-> TxLogs(pda, treeAccount[pda].leaves, cms, sig) ])
        /\ liveQ' = IF subscribed > 0 /\ ~subscriptionLost THEN liveQ \cup {sig} ELSE liveQ
  /\ treeAccount' = [treeAccount EXCEPT ![pda].leaves = @ + Len(cms)]
  /\ UNCHANGED <<commitments, started, catchUp, subscribed, timers, subscriptionLost,
                 upserts, persisted, firstWriter, dropped, isDevnet, decoderVars, rootVars,
                 pathVars, eventVars, pathRouteVars, errorVars, readVars>>

\* A user's transaction lands and fails after the program logged the events
\* of cms: the ledger keeps the transaction with its error and its logs, the
\* tree account is as before, and a registered subscription that is still
\* alive is notified (the notification carries err and logs).
FailedDeposit(pda, cms) ==
  /\ Len(chainTxs) < MaxTx
  /\ treeAccount[pda].present
  /\ LET sig == Len(chainTxs) + 1
     IN /\ chainTxs' = Append(chainTxs,
             [ signature |-> sig, err |-> TRUE,
               logMessages |-> TxLogs(pda, treeAccount[pda].leaves, cms, sig) ])
        /\ liveQ' = IF subscribed > 0 /\ ~subscriptionLost THEN liveQ \cup {sig} ELSE liveQ
  /\ UNCHANGED <<commitments, started, catchUp, subscribed, timers, subscriptionLost,
                 upserts, persisted, firstWriter, dropped, isDevnet, treeAccount,
                 decoderVars, rootVars, pathVars, eventVars, pathRouteVars, errorVars,
                 readVars>>

\* A mutant of startIndexer: catch-up is started and subscribe() is not called.
StartIndexerNoSubscribe(onLogsThrows) ==
  /\ ~started
  /\ started' = TRUE
  /\ catchUp' = [NotStarted EXCEPT !.pc = "listing"]
  /\ UNCHANGED <<chainTxs, commitments, subscribed, timers, subscriptionLost, liveQ,
                 upserts, persisted, firstWriter, dropped, isDevnet, treeAccount,
                 decoderVars, rootVars, pathVars, eventVars, pathRouteVars, errorVars,
                 readVars>>

\* startIndexer(): catchUpOnce() runs to its first await, then subscribe()
\* is called; onLogs either registers the subscription or throws.
StartIndexer(onLogsThrows) ==
  /\ ~started
  /\ started' = TRUE
  /\ catchUp' = [NotStarted EXCEPT !.pc = "listing"]
  /\ subscribed' = IF onLogsThrows THEN subscribed ELSE subscribed + 1
  /\ timers' = IF onLogsThrows THEN timers + 1 ELSE timers
  /\ UNCHANGED <<chainTxs, commitments, subscriptionLost, liveQ, upserts, persisted,
                 firstWriter, dropped, isDevnet, treeAccount, decoderVars, rootVars,
                 pathVars, eventVars, pathRouteVars, errorVars, readVars>>

\* A mutant of subscribe: the timer is a setInterval, which stays pending
\* when it fires.
ResubscribeInterval(onLogsThrows) ==
  /\ timers > 0
  /\ subscribed' = IF onLogsThrows THEN subscribed ELSE subscribed + 1
  /\ timers' = IF onLogsThrows THEN timers + 1 ELSE timers
  /\ UNCHANGED <<chainTxs, commitments, started, catchUp, subscriptionLost, liveQ, upserts,
                 persisted, firstWriter, dropped, isDevnet, treeAccount, decoderVars,
                 rootVars, pathVars, eventVars, pathRouteVars, errorVars, readVars>>

\* A resubscribe timer fires, which ends it, and subscribe() runs again: onLogs
\* either registers the subscription or throws, and the catch arms a timer.
Resubscribe(onLogsThrows) ==
  /\ timers > 0
  /\ subscribed' = IF onLogsThrows THEN subscribed ELSE subscribed + 1
  /\ timers' = IF onLogsThrows THEN (timers - 1) + 1 ELSE timers - 1
  /\ UNCHANGED <<chainTxs, commitments, started, catchUp, subscriptionLost, liveQ, upserts,
                 persisted, firstWriter, dropped, isDevnet, treeAccount, decoderVars,
                 rootVars, pathVars, eventVars, pathRouteVars, errorVars, readVars>>

\* The service drops the subscription onLogs registered. onLogs was given the
\* notification callback only: nothing of the indexer runs.
SubscriptionLost ==
  /\ subscribed > 0
  /\ ~subscriptionLost
  /\ subscriptionLost' = TRUE
  /\ UNCHANGED <<chainTxs, commitments, started, catchUp, subscribed, timers, liveQ,
                 upserts, persisted, firstWriter, dropped, isDevnet, treeAccount,
                 decoderVars, rootVars, pathVars, eventVars, pathRouteVars, errorVars,
                 readVars>>

\* getSignaturesForAddress resolves (the list as the chain is then) or rejects.
CatchUpList(ok) ==
  /\ catchUp.pc = "listing"
  /\ catchUp' =
       IF ~ok THEN [catchUp EXCEPT !.pc = "done", !.failed = TRUE]
       ELSE IF Len(chainTxs) = 0 THEN [catchUp EXCEPT !.pc = "done"]
       ELSE [catchUp EXCEPT !.pc = "fetching", !.pos = 1,
                            !.sigs = SignaturesForAddress(chainTxs, CATCH_UP_LIMIT)]
  /\ UNCHANGED <<chainTxs, commitments, started, subscribed, timers, subscriptionLost,
                 liveQ, upserts, persisted, firstWriter, dropped, isDevnet, treeAccount,
                 decoderVars, rootVars, pathVars, eventVars, pathRouteVars, errorVars,
                 readVars>>

\* catchUpOnce after the step for sigs[pos]: the next signature, or return.
CatchUpAdvance(c) ==
  IF c.pos < Len(c.sigs) THEN [c EXCEPT !.pc = "fetching", !.pos = c.pos + 1]
  ELSE [c EXCEPT !.pc = "done"]

\* getParsedTransaction(sigs[pos]) resolves to the transaction ("tx"), to
\* null ("null") or rejects ("throw"); with log messages, indexLogs is called
\* and, with rows, issues the upsert.
CatchUpFetch(result) ==
  /\ catchUp.pc = "fetching"
  /\ catchUp' =
       IF result = "throw" THEN [catchUp EXCEPT !.pc = "done", !.failed = TRUE]
       ELSE IF result = "null" THEN CatchUpAdvance(catchUp)
       ELSE IF Len(chainTxs[catchUp.sigs[catchUp.pos]].logMessages) = 0
         THEN CatchUpAdvance(catchUp)
       ELSE IF Len(TxRows(catchUp.sigs[catchUp.pos])) = 0 THEN CatchUpAdvance(catchUp)
       ELSE [catchUp EXCEPT !.pc = "persisting"]
  /\ UNCHANGED <<chainTxs, commitments, started, subscribed, timers, subscriptionLost,
                 liveQ, upserts, persisted, firstWriter, dropped, isDevnet, treeAccount,
                 decoderVars, rootVars, pathVars, eventVars, pathRouteVars, errorVars,
                 readVars>>

\* The store runs the upsert that indexLogs awaits in catchUpOnce (ok), or
\* the call fails and indexLogs logs it; the loop goes on either way.
CatchUpPersist(ok) ==
  /\ catchUp.pc = "persisting"
  /\ LET sig == catchUp.sigs[catchUp.pos]
     IN /\ commitments' = indexLogs(commitments, TxRows(sig), ok)
        /\ IF ok
             THEN /\ persisted' = Append(persisted, <<sig, "catchup">>)
                  /\ firstWriter' = firstWriter \cup NewWriters(commitments, TxRows(sig), sig)
                  /\ UNCHANGED dropped
             ELSE /\ dropped' = dropped \cup {<<sig, "catchup">>}
                  /\ UNCHANGED <<persisted, firstWriter>>
  /\ catchUp' = CatchUpAdvance(catchUp)
  /\ UNCHANGED <<chainTxs, started, subscribed, timers, subscriptionLost, liveQ, upserts,
                 isDevnet, treeAccount, decoderVars, rootVars, pathVars, eventVars,
                 pathRouteVars, errorVars, readVars>>

\* The onLogs callback runs for a notification: with logs and a signature it
\* calls indexLogs, which, with rows, issues the upsert and is not awaited.
LiveDeliver(sig) ==
  /\ sig \in liveQ
  /\ liveQ' = liveQ \ {sig}
  /\ upserts' =
       IF Len(chainTxs[sig].logMessages) > 0 /\ Len(TxRows(sig)) > 0
         THEN upserts \cup {sig} ELSE upserts
  /\ UNCHANGED <<chainTxs, commitments, started, catchUp, subscribed, timers,
                 subscriptionLost, persisted, firstWriter, dropped, isDevnet, treeAccount,
                 decoderVars, rootVars, pathVars, eventVars, pathRouteVars, errorVars,
                 readVars>>

\* The store runs an upsert the callback issued (ok), or the call fails.
LivePersist(sig, ok) ==
  /\ sig \in upserts
  /\ upserts' = upserts \ {sig}
  /\ commitments' = indexLogs(commitments, TxRows(sig), ok)
  /\ IF ok
       THEN /\ persisted' = Append(persisted, <<sig, "live">>)
            /\ firstWriter' = firstWriter \cup NewWriters(commitments, TxRows(sig), sig)
            /\ UNCHANGED dropped
       ELSE /\ dropped' = dropped \cup {<<sig, "live">>}
            /\ UNCHANGED <<persisted, firstWriter>>
  /\ UNCHANGED <<chainTxs, started, catchUp, subscribed, timers, subscriptionLost, liveQ,
                 isDevnet, treeAccount, decoderVars, rootVars, pathVars, eventVars,
                 pathRouteVars, errorVars, readVars>>

\* The lengths of the program's transaction history at startup: none, fewer
\* than the scan's limit, the limit, one more.
ChainLens == {0, 1, 2, CATCH_UP_LIMIT, CATCH_UP_LIMIT + 1}

\* A history of n transactions of the program at startup: the two oldest and
\* the newest appended a leaf to the base asset's tree, the others logged no
\* event.
ChainOfLen(n) ==
  [ k \in 1..n |->
      [ signature |-> k, err |-> FALSE,
        logMessages |->
          IF k \in {1, 2, n}
            THEN TxLogs(NoMint, IF k < 3 THEN k - 1 ELSE 2, <<k>>, k)
            ELSE <<TextLine>> ] ]

(***************************************************************************)
(* routes/merkle: getPathForLeafIndex                                      *)
(***************************************************************************)
MERKLE_DEPTH == 26

\* index ^ 1 on a non-negative 32-bit integer: the lowest bit flipped.
Xor1(index) == IF index % 2 = 0 THEN index + 1 ELSE index - 1

\* A mutant of the loop's step: the parent taken as ceil(index / 2).
RECURSIVE LevelIndexCeil(_, _)
LevelIndexCeil(leafIndex, level) ==
  IF level = 0 THEN leafIndex ELSE (LevelIndexCeil(leafIndex, level - 1) + 1) \div 2

\* The loop variable `index` at the start of iteration `level`: leafIndex
\* after `level` times index = Math.floor(index / 2).
RECURSIVE LevelIndex(_, _)
LevelIndex(leafIndex, level) ==
  IF level = 0 THEN leafIndex ELSE LevelIndex(leafIndex, level - 1) \div 2

\* The rows the query returns: .eq('token', token).in('commitment_index', ...)
SiblingRows(table, token, siblingIndices) ==
  SelectSeq(table, LAMBDA r :
    /\ r.token = token
    /\ \E k \in DOMAIN siblingIndices : Num(siblingIndices[k]) = r.commitment_index)

\* byIndex.get(siblingIndex) ?? '0', byIndex filled from the rows in order.
ByIndexGet(siblings, siblingIndex) ==
  LET hits == {k \in DOMAIN siblings : siblings[k].commitment_index = Num(siblingIndex)}
  IN IF hits = {} THEN <<0>>
     ELSE siblings[CHOOSE k \in hits : \A j \in hits : j <= k].commitment

getPathForLeafIndex(table, token, leafIndex) ==
  LET siblingIndices == [level \in 1..MERKLE_DEPTH |-> Xor1(LevelIndex(leafIndex, level - 1))]
      siblings       == SiblingRows(table, token, siblingIndices)
  IN [ done |-> TRUE,
       siblingIndices |-> siblingIndices,
       pathElements |->
         [level \in 1..MERKLE_DEPTH |->
            ByIndexGet(siblings, Xor1(LevelIndex(leafIndex, level - 1)))],
       pathIndices |-> [level \in 1..MERKLE_DEPTH |-> LevelIndex(leafIndex, level - 1) % 2] ]

NoPath ==
  [ answer |-> "none", done |-> FALSE, siblingIndices |-> <<>>, pathElements |-> <<>>,
    pathIndices |-> <<>> ]

\* What a select on the commitments table resolves to. Without an order
\* clause the rows come in an order the store chooses ("rows", "reversed");
\* when the query fails the client resolves to { data: null, error } and
\* `data ?? []` is the empty list ("error").
StoreAnswers == {"rows", "reversed", "error"}

Reverse(seq) == [k \in 1..Len(seq) |-> seq[Len(seq) - k + 1]]

StoreSelect(table, answer) ==
  IF answer = "error" THEN <<>>
  ELSE IF answer = "reversed" THEN Reverse(table) ELSE table

\* The row the indexer stores for leaf `leaf` of the base asset or of usdc
\* holding commitment value cm, from transaction sig.
IndexedRow(devnet, token, leaf, cm, sig) ==
  RowsOfLine(devnet,
             EventLine(IF token = "sol" THEN NoMint ELSE MINT_BY_TOKEN(devnet)[token],
                       leaf, cm, sig),
             sig)[1]

\* The table after the first n leaves of the base asset and the first m of
\* usdc were indexed, one transaction a leaf.
IndexedTable(devnet, n, m) ==
  [k \in 1..(n + m) |->
     IF k <= n THEN IndexedRow(devnet, "sol", k - 1, 100 + k - 1, k)
     ELSE IndexedRow(devnet, "usdc", k - n - 1, 200 + k - n - 1, k)]

\* The rows of u leaves of the network's usdt tree, a mint the indexer's table
\* does not know, appended to a table of `before` rows.
UnknownMintRows(devnet, u, before) ==
  [k \in 1..u |-> IndexedRow(devnet, "usdt", k - 1, 300 + k - 1, before + k)]

\* The leaf indices the path builder is run for: the low ones and the last
\* ones of a tree of depth 26.
LeafInputs == (0..MaxLeaf) \cup {Pow(2, 25) - 1, Pow(2, 25), Pow(2, 26) - 2, Pow(2, 26) - 1}

(***************************************************************************)
(* GET /merkle/path                                                        *)
(***************************************************************************)
\* A query parameter is a string, kept as the sequence of its characters, or
\* is not a string (absent, or given twice and so an array).
NotAString == <<"undefined">>

Digits == <<"0", "1", "2", "3", "4", "5", "6", "7", "8", "9">>

IsDigit(c) == \E d \in DOMAIN Digits : Digits[d] = c

DigitOf(c) == (CHOOSE d \in DOMAIN Digits : Digits[d] = c) - 1

\* The value of the leading run of digits of chars, given the value so far.
RECURSIVE DigitRun(_, _)
DigitRun(chars, acc) ==
  IF Len(chars) = 0 \/ ~IsDigit(chars[1]) THEN acc
  ELSE DigitRun(Tail(chars), 10 * acc + DigitOf(chars[1]))

RECURSIVE SkipSpaces(_)
SkipSpaces(chars) ==
  IF Len(chars) > 0 /\ chars[1] = " " THEN SkipSpaces(Tail(chars)) ELSE chars

\* parseInt(str, 10): leading white space, a sign, then digits up to the
\* first character that is not one; NaN when there is no digit.
ParseInt(str) ==
  LET t      == SkipSpaces(str)
      signed == Len(t) > 0 /\ t[1] \in {"+", "-"}
      body   == IF signed THEN Tail(t) ELSE t
  IN IF Len(body) = 0 \/ ~IsDigit(body[1]) THEN [nan |-> TRUE, value |-> 0]
     ELSE [ nan |-> FALSE,
            value |-> IF signed /\ t[1] = "-" THEN 0 - DigitRun(body, 0)
                      ELSE DigitRun(body, 0) ]

\* typeof leafIndexRaw === 'string' ? parseInt(leafIndexRaw, 10) : NaN
LeafIndexOf(leafIndexRaw) ==
  IF leafIndexRaw = NotAString THEN [nan |-> TRUE, value |-> 0] ELSE ParseInt(leafIndexRaw)

\* !Number.isInteger(leafIndex) || leafIndex < 0 || leafIndex >= 2 ** MERKLE_DEPTH
InvalidLeafIndex(leafIndex) ==
  leafIndex.nan \/ leafIndex.value < 0 \/ leafIndex.value >= Pow(2, MERKLE_DEPTH)

\* The leafIndex parameters requests carry.
LeafIndexInputs ==
  { NotAString, <<>>, <<"0">>, <<"2">>, <<"3">>, <<"5">>, <<" ", "1">>, <<"5", "x">>,
    <<"1", ".", "9">>, <<"-", "1">>, <<"a", "b", "c">>,
    <<"6", "7", "1", "0", "8", "8", "6", "3">>, <<"6", "7", "1", "0", "8", "8", "6", "4">> }

\* .order('commitment_index', { ascending: true }): rows is put in ascending
\* order of leaf index, rows of equal leaf index staying in the order given.
RECURSIVE InsertByIndex(_, _)
InsertByIndex(sorted, r) ==
  IF Len(sorted) = 0 THEN <<r>>
  ELSE IF NatOf(sorted[Len(sorted)].commitment_index) <= NatOf(r.commitment_index)
    THEN Append(sorted, r)
  ELSE Append(InsertByIndex(SubSeq(sorted, 1, Len(sorted) - 1), r), sorted[Len(sorted)])

RECURSIVE OrderByIndex(_)
OrderByIndex(rows) ==
  IF Len(rows) = 0 THEN <<>>
  ELSE InsertByIndex(OrderByIndex(SubSeq(rows, 1, Len(rows) - 1)), rows[Len(rows)])

\* select('commitment_index, commitment').eq('token', token).order(...), then
\* the map to { commitment_index: Number(..), commitment }.
CommitmentsOf(table, token, answer) ==
  LET rows == OrderByIndex(SelectSeq(StoreSelect(table, answer), LAMBDA r : r.token = token))
  IN [k \in DOMAIN rows |->
        [commitment_index |-> rows[k].commitment_index, commitment |-> rows[k].commitment]]

\* A mutant of the leaf check: the leaf is taken to be there.
HasLeafAlways(list, leafIndex) == TRUE

\* commitments.some((c) => c.commitment_index === leafIndex)
HasLeaf(list, leafIndex) ==
  \E k \in DOMAIN list : list[k].commitment_index = Num(leafIndex)

\* The bodies of the route's responses, in one record shape.
PathBody(kind, root, nextIndex, list) ==
  [kind |-> kind, root |-> root, nextIndex |-> nextIndex, commitments |-> list]

\* The request of the path route: pc is where its handler stands,
\*   "start"     received
\*   "awaitRpc"  getAccountInfo (in fetchMerkleTreeState) is in flight
\*   "awaitDb"   the select on the commitments table is in flight
\*   "done"      the response (status, body) is sent
PathHttp(rawToken, leafIndexRaw, token, leafIndex, pc, rootData, status, body) ==
  [ rawToken |-> rawToken, leafIndexRaw |-> leafIndexRaw, token |-> token,
    leafIndex |-> leafIndex, pc |-> pc, rootData |-> rootData, status |-> status,
    body |-> body ]

NoPathHttp ==
  PathHttp(NoToken, NotAString, "sol", 0, "none", Pending, 0, PathBody("none", <<>>, 0, <<>>))

\* The handler up to its first await: the token, the leaf index, and either
\* the 400 or the call of fetchMerkleTreeState.
PathStart ==
  /\ pathHttp.pc = "start"
  /\ LET token     == sanitizeToken(pathHttp.rawToken)
         leafIndex == LeafIndexOf(pathHttp.leafIndexRaw)
     IN pathHttp' =
          IF InvalidLeafIndex(leafIndex)
            THEN [pathHttp EXCEPT !.token = token, !.pc = "done", !.status = 400,
                                  !.body = PathBody("invalidLeafIndex", <<>>, 0, <<>>)]
            ELSE [pathHttp EXCEPT !.token = token, !.leafIndex = leafIndex.value,
                                  !.pc = "awaitRpc"]
  /\ UNCHANGED <<isDevnet, treeAccount, decoderVars, rootVars, indexerVars, pathVars,
                 eventVars, errorVars, readVars>>

\* getAccountInfo resolves and fetchMerkleTreeState returns or throws: the
\* 404 for null, the 500 of the catch block, or the select on the table.
PathRpc ==
  /\ pathHttp.pc = "awaitRpc"
  /\ LET rootData == fetchMerkleTreeState(
                       getAccountInfo(treeAccount,
                         getTreeAccountPDA(getMintFromToken(isDevnet, pathHttp.token))))
     IN pathHttp' =
          IF rootData.kind = "throw"
            THEN [pathHttp EXCEPT !.pc = "done", !.status = 500,
                                  !.body = PathBody("error", <<>>, 0, <<>>)]
          ELSE IF rootData.kind = "null"
            THEN [pathHttp EXCEPT !.pc = "done", !.status = 404, !.rootData = rootData,
                                  !.body = PathBody("treeNotInitialized", <<>>, 0, <<>>)]
          ELSE [pathHttp EXCEPT !.pc = "awaitDb", !.rootData = rootData]
  /\ UNCHANGED <<isDevnet, treeAccount, decoderVars, rootVars, indexerVars, pathVars,
                 eventVars, errorVars, readVars>>

\* getAccountInfo rejects: the catch block answers 500.
PathRpcFail ==
  /\ pathHttp.pc = "awaitRpc"
  /\ pathHttp' = [pathHttp EXCEPT !.pc = "done", !.status = 500,
                                  !.body = PathBody("error", <<>>, 0, <<>>)]
  /\ UNCHANGED <<isDevnet, treeAccount, decoderVars, rootVars, indexerVars, pathVars,
                 eventVars, errorVars, readVars>>

\* The select resolves: the leaf check, then the 404 or the payload.
PathDb(answer) ==
  /\ pathHttp.pc = "awaitDb"
  /\ LET list == CommitmentsOf(commitments, pathHttp.token, answer)
     IN pathHttp' =
          IF ~HasLeaf(list, pathHttp.leafIndex)
            THEN [pathHttp EXCEPT !.pc = "done", !.status = 404,
                                  !.body = PathBody("leafNotFound", <<>>, 0, <<>>)]
            ELSE [pathHttp EXCEPT !.pc = "done", !.status = 200,
                    !.body = PathBody("path", pathHttp.rootData.root,
                                      pathHttp.rootData.nextIndex, list)]
  /\ UNCHANGED <<isDevnet, treeAccount, decoderVars, rootVars, indexerVars, pathVars,
                 eventVars, errorVars, readVars>>

(***************************************************************************)
(* routes/merkle: GET /proof/:commitment                                   *)
(***************************************************************************)
\* isValidCommitment(str): 1 to 100 characters, decimal digits only.
isValidCommitment(str) ==
  /\ Len(str) >= 1
  /\ Len(str) <= 100
  /\ \A k \in DOMAIN str : IsDigit(str[k])

\* The commitment column's text for a commitment parameter made of digits.
CommitmentText(str) == [k \in DOMAIN str |-> DigitOf(str[k])]

\* select('commitment_index').eq('commitment', c).eq('token', token)
\* .maybeSingle(): the row when exactly one matches, null when none does,
\* when several do or when the query fails.
MaybeSingle(table, commitment, token, answer) ==
  LET rows == SelectSeq(StoreSelect(table, answer),
                        LAMBDA r : r.commitment = CommitmentText(commitment) /\ r.token = token)
  IN IF Len(rows) = 1 THEN [found |-> TRUE, commitment_index |-> rows[1].commitment_index]
     ELSE [found |-> FALSE, commitment_index |-> Num(0)]

\* The bodies of the proof route's responses, in one record shape.
ProofBody(kind, leafIndex, root, nextIndex, list) ==
  [ kind |-> kind, leafIndex |-> leafIndex, root |-> root, nextIndex |-> nextIndex,
    commitments |-> list ]

\* The request of the proof route: pc is where its handler stands,
\*   "start"     received
\*   "awaitRow"  the select of the commitment's row is in flight
\*   "awaitRpc"  getAccountInfo (in fetchMerkleTreeState) is in flight
\*   "awaitDb"   the select of the token's rows is in flight
\*   "done"      the response (status, body) is sent
NoProofHttp ==
  [ rawToken |-> NoToken, commitment |-> <<>>, token |-> "sol", leafIndex |-> Num(0),
    pc |-> "none", rootData |-> Pending, status |-> 0,
    body |-> ProofBody("none", Num(0), <<>>, 0, <<>>) ]

\* The handler up to its first await: the token, the commitment check, and
\* either the 400 or the select of the commitment's row.
ProofStart ==
  /\ proofHttp.pc = "start"
  /\ proofHttp' =
       IF ~isValidCommitment(proofHttp.commitment)
         THEN [proofHttp EXCEPT !.token = sanitizeToken(proofHttp.rawToken), !.pc = "done",
                                !.status = 400,
                                !.body = ProofBody("invalidCommitment", Num(0), <<>>, 0, <<>>)]
         ELSE [proofHttp EXCEPT !.token = sanitizeToken(proofHttp.rawToken),
                                !.pc = "awaitRow"]
  /\ UNCHANGED <<isDevnet, treeAccount, decoderVars, rootVars, indexerVars, pathVars,
                 eventVars, pathRouteVars, errorVars, rangeHttp>>

\* The first select resolves: the 404, or the call of fetchMerkleTreeState.
ProofRow(answer) ==
  /\ proofHttp.pc = "awaitRow"
  /\ LET commitmentRow ==
           MaybeSingle(commitments, proofHttp.commitment, proofHttp.token, answer)
     IN proofHttp' =
          IF ~commitmentRow.found
            THEN [proofHttp EXCEPT !.pc = "done", !.status = 404,
                    !.body = ProofBody("commitmentNotFound", Num(0), <<>>, 0, <<>>)]
            ELSE [proofHttp EXCEPT !.pc = "awaitRpc",
                                   !.leafIndex = commitmentRow.commitment_index]
  /\ UNCHANGED <<isDevnet, treeAccount, decoderVars, rootVars, indexerVars, pathVars,
                 eventVars, pathRouteVars, errorVars, rangeHttp>>

\* getAccountInfo resolves and fetchMerkleTreeState returns or throws: the
\* 404 for null, the 500 of the catch block, or the select of the token's rows.
ProofRpc ==
  /\ proofHttp.pc = "awaitRpc"
  /\ LET rootData == fetchMerkleTreeState(
                       getAccountInfo(treeAccount,
                         getTreeAccountPDA(getMintFromToken(isDevnet, proofHttp.token))))
     IN proofHttp' =
          IF rootData.kind = "throw"
            THEN [proofHttp EXCEPT !.pc = "done", !.status = 500,
                                   !.body = ProofBody("error", Num(0), <<>>, 0, <<>>)]
          ELSE IF rootData.kind = "null"
            THEN [proofHttp EXCEPT !.pc = "done", !.status = 404, !.rootData = rootData,
                    !.body = ProofBody("treeNotInitialized", Num(0), <<>>, 0, <<>>)]
          ELSE [proofHttp EXCEPT !.pc = "awaitDb", !.rootData = rootData]
  /\ UNCHANGED <<isDevnet, treeAccount, decoderVars, rootVars, indexerVars, pathVars,
                 eventVars, pathRouteVars, errorVars, rangeHttp>>

\* getAccountInfo rejects: the catch block answers 500.
ProofRpcFail ==
  /\ proofHttp.pc = "awaitRpc"
  /\ proofHttp' = [proofHttp EXCEPT !.pc = "done", !.status = 500,
                     !.body = ProofBody("error", Num(0), <<>>, 0, <<>>)]
  /\ UNCHANGED <<isDevnet, treeAccount, decoderVars, rootVars, indexerVars, pathVars,
                 eventVars, pathRouteVars, errorVars, rangeHttp>>

\* The second select resolves: the payload, with `commitmentsRows ?? []`.
ProofDb(answer) ==
  /\ proofHttp.pc = "awaitDb"
  /\ proofHttp' =
       [proofHttp EXCEPT !.pc = "done", !.status = 200,
          !.body = ProofBody("proof", proofHttp.leafIndex, proofHttp.rootData.root,
                             proofHttp.rootData.nextIndex,
                             CommitmentsOf(commitments, proofHttp.token, answer))]
  /\ UNCHANGED <<isDevnet, treeAccount, decoderVars, rootVars, indexerVars, pathVars,
                 eventVars, pathRouteVars, errorVars, rangeHttp>>

(***************************************************************************)
(* routes/utxos: GET /range, and lib/validators clampInt                   *)
(***************************************************************************)
MAX_RANGE_SIZE == 1000

\* Number.MAX_SAFE_INTEGER is 2^53 - 1. The model's integers are 32 bits
\* wide, so the constant is the largest of them; the inputs of the model stay
\* far below it, where the upper clamp of start acts in neither.
MAX_SAFE_INTEGER == 2147483647

\* The default of the end parameter in the range route.
DEFAULT_END == 20000

Max(a, b) == IF a >= b THEN a ELSE b

\* clampInt(value, defaultVal, min, max): parseInt of a string, Number() of
\* anything else (NaN for undefined); the default as it is when the number is
\* not finite, and the number clamped to [min, max] otherwise. Math.floor
\* leaves parseInt's integers alone.
clampInt(value, defaultVal, min, max) ==
  LET n == IF value = NotAString THEN [nan |-> TRUE, value |-> 0] ELSE ParseInt(value)
  IN IF n.nan THEN defaultVal ELSE Max(min, Min(max, n.value))

\* The count query: select('*', { count: 'exact', head: true }).eq('token',
\* token), and `totalCount ?? 0` for a failed one.
TotalOf(table, token, countOk) ==
  IF countOk THEN Len(SelectSeq(table, LAMBDA r : r.token = token)) ELSE 0

\* The range query: eq('token'), gte and lt on commitment_index, order
\* ascending, limit(MAX_RANGE_SIZE), and `rows ?? []` for a failed one.
RangeOf(table, token, start, end, answer) ==
  LET rows == OrderByIndex(SelectSeq(StoreSelect(table, answer),
                LAMBDA r : /\ r.token = token
                           /\ NatOf(r.commitment_index) >= start
                           /\ NatOf(r.commitment_index) < end))
  IN SubSeq(rows, 1, Min(Len(rows), MAX_RANGE_SIZE))

\* The body of the range route's response.
RangeBody(list, total, end) ==
  [ encrypted_outputs |-> [k \in DOMAIN list |-> list[k].encrypted_output],
    total   |-> total,
    hasMore |-> Len(list) >= MAX_RANGE_SIZE \/ end < total,
    len     |-> Len(list),
    utxos   |-> [k \in DOMAIN list |->
                   [ index |-> list[k].commitment_index,
                     commitment |-> list[k].commitment,
                     encrypted_output |-> list[k].encrypted_output ]] ]

\* The request of the range route: pc is where its handler stands,
\*   "start"     received
\*   "awaitDb"   the count query and the range query are in flight
\*   "done"      the response (status, body) is sent
NoRangeHttp ==
  [ rawToken |-> NoToken, startRaw |-> NotAString, endRaw |-> NotAString, token |-> "sol",
    start |-> 0, end |-> 0, pc |-> "none", status |-> 0, body |-> RangeBody(<<>>, 0, 0) ]

\* The handler up to its await: the token and the two bounds.
RangeStart ==
  /\ rangeHttp.pc = "start"
  /\ LET start == clampInt(rangeHttp.startRaw, 0, 0, MAX_SAFE_INTEGER)
         end   == clampInt(rangeHttp.endRaw, DEFAULT_END, start, start + MAX_RANGE_SIZE)
     IN rangeHttp' = [rangeHttp EXCEPT !.token = sanitizeToken(rangeHttp.rawToken),
                                       !.start = start, !.end = end, !.pc = "awaitDb"]
  /\ UNCHANGED <<isDevnet, treeAccount, decoderVars, rootVars, indexerVars, pathVars,
                 eventVars, pathRouteVars, errorVars, proofHttp>>

\* Promise.all resolves: both queries read the table as it is now.
RangeDb(countOk, answer) ==
  /\ rangeHttp.pc = "awaitDb"
  /\ rangeHttp' =
       [rangeHttp EXCEPT !.pc = "done", !.status = 200,
          !.body = RangeBody(RangeOf(commitments, rangeHttp.token, rangeHttp.start,
                                     rangeHttp.end, answer),
                             TotalOf(commitments, rangeHttp.token, countOk),
                             rangeHttp.end)]
  /\ UNCHANGED <<isDevnet, treeAccount, decoderVars, rootVars, indexerVars, pathVars,
                 eventVars, pathRouteVars, errorVars, proofHttp>>

(***************************************************************************)
(* The routes' catch blocks and safeErrorHandler                           *)
(***************************************************************************)
\* A JavaScript value that is a string (its text in parts) or undefined.
Str(parts) == [defined |-> TRUE, parts |-> parts]

Undefined == [defined |-> FALSE, parts |-> <<>>]

\* String(v)
String(v) == IF v.defined THEN v ELSE Str(<<"undefined">>)

\* a ?? b
Coalesce(a, b) == IF a.defined THEN a ELSE b

\* text.includes(needle)
Includes(text, needle) ==
  \E k \in 1..(Len(text) - Len(needle) + 1) :
    SubSeq(text, k, k + Len(needle) - 1) = needle

\* The texts of the errors the RPC service, the store and the transaction
\* simulation raise in a run.
ErrorMessages ==
  { <<"connect", "ECONNREFUSED", "10.0.0.5:8899">>,
    <<"Transaction", "simulation", "failed:", "insufficient funds for rent">>,
    <<"Transaction", "simulation", "failed:", "custom program error: 0x1771">>,
    <<"relation", "public.commitments", "does", "not", "exist">> }

\* What a route's try block throws: an Error, another object or a string;
\* message and transactionMessage as reading the property gives them, and
\* whether 'transactionMessage' in error.
ThrownErrors ==
  { e \in [ kind : {"Error", "object", "string"},
            message : {Undefined} \cup {Str(m) : m \in ErrorMessages},
            hasTransactionMessage : BOOLEAN,
            transactionMessage : {Undefined} \cup {Str(m) : m \in ErrorMessages} ] :
      /\ e.kind = "Error" => e.message.defined
      /\ e.kind = "object" => e.message \in {Undefined, Str(<<"connect", "ECONNREFUSED", "10.0.0.5:8899">>)}
      /\ e.kind = "string" => ~e.message.defined /\ ~e.hasTransactionMessage
      /\ ~e.hasTransactionMessage => ~e.transactionMessage.defined
      /\ e.transactionMessage.defined =>
           e.transactionMessage.parts[1] \in {"Transaction"} }

\* The routes that answer an internal failure, by the text their catch
\* block sends; safeErrorHandler answers what no route caught.
FixedBodies ==
  [ config |-> <<"Failed to fetch config">>,
    deposit |-> <<"Failed to relay deposit">>,
    depositSpl |-> <<"Failed to relay deposit">>,
    merkleRoot |-> <<"Failed to fetch merkle root">>,
    merklePath |-> <<"Failed to fetch merkle path">>,
    merkleProof |-> <<"Failed to fetch merkle proof">>,
    withdrawByNote |-> <<"Failed to process withdraw by note">>,
    withdraw |-> <<"Failed to process withdraw">>,
    utxosRange |-> <<"Failed to fetch UTXOs">>,
    utxosCheck |-> <<"Failed to check UTXO">>,
    utxosIndices |-> <<"Failed to fetch indices">>,
    safeErrorHandler |-> <<"Internal server error">> ]

Routes == DOMAIN FixedBodies \cup {"withdrawSpl", "withdrawSplRelayer", "withdrawRelayer"}

Response(status, text) == [status |-> status, body |-> [error |-> text]]

\* routes/withdrawSpl: the catch block of the route that builds the transaction.
withdrawSplCatch(error) ==
  LET message ==
        IF error.kind # "string" /\ error.hasTransactionMessage
          THEN String(error.transactionMessage)
        ELSE IF error.kind = "Error" THEN error.message
        ELSE Str(<<"Failed to process withdraw">>)
  IN Response(500, message)

\* msg.includes('insufficient funds for rent') of the relayer routes.
RentShortfall(error) ==
  Includes(Coalesce(error.transactionMessage, Coalesce(error.message, Str(<<>>))).parts,
           <<"insufficient funds for rent">>)

\* routes/withdrawSpl: the catch block of the route the relayer signs for.
withdrawSplRelayerCatch(error) ==
  IF RentShortfall(error)
    THEN Response(503, Str(<<"Relayer has insufficient SOL for transaction fees and rent. Fund the relayer wallet.">>))
    ELSE Response(500,
           Coalesce(error.transactionMessage,
                    IF error.kind = "Error" THEN error.message
                    ELSE Str(<<"Failed to process withdraw">>)))

\* routes/withdraw, relayer-signed: the catch block.
withdrawRelayerCatch(error) ==
  IF RentShortfall(error)
    THEN Response(503, Str(<<"Relayer has insufficient SOL for transaction fees and rent. Fund the relayer wallet (see server logs for address).">>))
    ELSE Response(500, Str(<<"Failed to process withdraw">>))

\* The response a route gives when its try block throws error.
CatchBlock(route, error) ==
  IF route = "withdrawSpl" THEN withdrawSplCatch(error)
  ELSE IF route = "withdrawSplRelayer" THEN withdrawSplRelayerCatch(error)
  ELSE IF route = "withdrawRelayer" THEN withdrawRelayerCatch(error)
  ELSE Response(500, Str(FixedBodies[route]))

\* A request to route fails internally with error; the catch block answers.
HandleError(route, error) ==
  /\ Len(errorRuns) < MaxRuns
  /\ errorRuns' = Append(errorRuns,
       [ route |-> route, error |-> error,
         status |-> CatchBlock(route, error).status,
         body |-> CatchBlock(route, error).body ])
  /\ UNCHANGED <<isDevnet, treeAccount, decoderVars, rootVars, indexerVars, pathVars,
                 eventVars, pathRouteVars, readVars>>

(***************************************************************************)
(* Claims about the account-state decoder (checked under SpecDecoder)      *)
(***************************************************************************)
Decoded == decoded.kind # "pending"

\* The value the image holds in ring-buffer slot s, as the decoder renders it.
RingSlot(img, s) == ToDecimal(img.hist + s)

\* C6 (as stated): for every account image of at least the minimum size with
\* rolling pointer P, the decoder returns the value of ring-buffer slot
\* P mod 100, and not the value of the single current-root slot when the two
\* differ. P mod 100 is taken of the pointer's 64 bits themselves.
C6_RootIsRingSlotPointerMod100 ==
  (Decoded /\ accountInfo.present /\ accountInfo.data.len >= MinImageLen) =>
     /\ decoded.kind = "state"
     /\ decoded.root = RingSlot(accountInfo.data, ModLE(accountInfo.data.rootIndex, 100))
     /\ (ToDecimal(accountInfo.data.cur)
           # RingSlot(accountInfo.data, ModLE(accountInfo.data.rootIndex, 100))
         => decoded.root # ToDecimal(accountInfo.data.cur))

\* C7: when the tree-state account does not exist, the decoder returns null:
\* it neither throws nor reports a structural error nor returns a state.
C7_AbsentIsNull ==
  (Decoded /\ ~accountInfo.present) =>
     /\ decoded.kind = "null"
     /\ decoded.kind \notin {"throw", "state"}
     /\ decoded = NullOutcome

C7_Witness == ~accountInfo.present /\ decoded.kind = "null"

\* C8: an existing account whose image is shorter than 4120 bytes fails with
\* the structural error (never null, never a state); an image of at least
\* 4120 bytes decodes to a state with exactly 26 subtree entries.
C8_ShortImageThrows ==
  (Decoded /\ accountInfo.present) =>
     /\ (accountInfo.data.len < 8 + 32 + 8 + 26 * 32 + 32 + 100 * 32 + 8
           => decoded.kind = "throw")
     /\ (accountInfo.data.len >= 8 + 32 + 8 + 26 * 32 + 32 + 100 * 32 + 8
           => decoded.kind = "state" /\ Len(decoded.subtrees) = 26)

C8_Witness ==
  /\ accountInfo.present
  /\ accountInfo.data.len = 4119
  /\ decoded.kind = "throw"


(***************************************************************************)
(* Claims about the root route (checked under SpecRoot)                    *)
(***************************************************************************)
\* C9 (as stated): with the default TTL of 0, every successful response of
\* the root lookup carries a state this same request fetched from the chain;
\* a state obtained for an earlier request is never served.
C9_NoStaleRoot ==
  \A i \in DOMAIN requests :
    (requests[i].pc = "done" /\ requests[i].status = 200) =>
       /\ requests[i].fetched
       /\ (requests[i].info.present =>
             requests[i].body = DataOf(fetchMerkleTreeState(requests[i].info)))


\* C22 (as stated): for every token, the base asset included, a request
\* whose own chain read found no tree-state account is answered with the
\* not-initialized outcome (404) and without a root / nextIndex / subtrees body.
C22_NotInitializedDistinguishable ==
  \A i \in DOMAIN requests :
    (requests[i].pc = "done" /\ requests[i].fetched /\ ~requests[i].info.present) =>
      /\ requests[i].status = 404
      /\ requests[i].body = NoData

(***************************************************************************)
(* Claims about the indexer and the commitment index (checked under Spec)  *)
(***************************************************************************)
\* The rows of the table that hold commitment c.
RowsWith(table, c) == {i \in DOMAIN table : table[i].commitment = c}

\* The first of rows that holds commitment c: the one an upsert of rows stores.
FirstRowWith(rows, c) ==
  rows[CHOOSE k \in DOMAIN rows :
         /\ rows[k].commitment = c
         /\ \A j \in 1..(k - 1) : rows[j].commitment # c]

PersistedBy(sig, source) == \E n \in DOMAIN persisted : persisted[n] = <<sig, source>>

Persisted(sig) == \E n \in DOMAIN persisted : persisted[n][1] = sig

\* C1: indexLogs(B, s) run twice leaves the index as running it once does,
\* from any index state; and once it has run, each commitment decoded from B
\* has exactly one row and a further run changes nothing.
C1_ReplayIsIdempotent ==
  \A sig \in DOMAIN chainTxs :
    LET rows == TxRows(sig)
        once == Upsert(commitments, rows)
    IN /\ Upsert(once, rows) = once
       /\ \A k \in DOMAIN rows : Cardinality(RowsWith(once, rows[k].commitment)) = 1
       /\ Persisted(sig) =>
            /\ Upsert(commitments, rows) = commitments
            /\ \A k \in DOMAIN rows :
                 Cardinality(RowsWith(commitments, rows[k].commitment)) = 1

\* A batch of two events was persisted twice.
C1_Witness ==
  \E sig \in DOMAIN chainTxs :
    /\ Len(TxRows(sig)) = 2
    /\ PersistedBy(sig, "catchup")
    /\ PersistedBy(sig, "live")

\* C2: a transaction delivered by the catch-up scan and by the subscription
\* leaves, in either order of the two upserts, exactly one row for each of
\* its commitments, and a row written for it is the row decoded from it,
\* whichever delivery wrote it.
C2_OutOfOrderSafe ==
  \A sig \in DOMAIN chainTxs :
    Persisted(sig) =>
      \A k \in DOMAIN TxRows(sig) :
        LET c == TxRows(sig)[k].commitment
        IN /\ Cardinality(RowsWith(commitments, c)) = 1
           /\ \A i \in RowsWith(commitments, c) :
                commitments[i].transaction_signature = sig
                  => commitments[i] = FirstRowWith(TxRows(sig), c)

\* The subscription's upsert of a transaction succeeded first, the scan's second.
C2_Witness ==
  \E m, n \in DOMAIN persisted :
    /\ m < n
    /\ persisted[m][2] = "live"
    /\ persisted[n][2] = "catchup"
    /\ persisted[m][1] = persisted[n][1]
    /\ \E i \in DOMAIN commitments : commitments[i].transaction_signature = persisted[m][1]

\* C3: no two rows hold the same commitment, nor the same (transaction
\* signature, commitment); of two transactions that emit the same commitment
\* the one persisted later is ignored: the row is the first writer's.
C3_CommitmentUnique ==
  /\ \A i, j \in DOMAIN commitments :
       i # j =>
         /\ commitments[i].commitment # commitments[j].commitment
         /\ <<commitments[i].transaction_signature, commitments[i].commitment>>
              # <<commitments[j].transaction_signature, commitments[j].commitment>>
  /\ \A w \in firstWriter :
       /\ Cardinality(RowsWith(commitments, w[1])) = 1
       /\ \A i \in RowsWith(commitments, w[1]) :
            commitments[i] = FirstRowWith(TxRows(w[2]), w[1])

\* Two transactions of different tokens emitted one commitment; both were persisted.
C3_Witness ==
  \E s1, s2 \in DOMAIN chainTxs :
    /\ s1 # s2
    /\ Persisted(s1)
    /\ Persisted(s2)
    /\ \E k1 \in DOMAIN TxRows(s1), k2 \in DOMAIN TxRows(s2) :
         /\ TxRows(s1)[k1].commitment = TxRows(s2)[k2].commitment
         /\ TxRows(s1)[k1].token # TxRows(s2)[k2].token

\* C4: no step changes or removes a row once it exists (its token, leaf
\* index, commitment, ciphertext, mint and signature stay); rows are only added.
C4_AppendOnly ==
  [][ /\ Len(commitments') >= Len(commitments)
      /\ \A i \in DOMAIN commitments : commitments'[i] = commitments[i] ]_vars

\* A conflicting record (same commitment, another transaction) was persisted
\* after the row existed.
C4_Witness ==
  \E m, n \in DOMAIN persisted :
    /\ m < n
    /\ persisted[m][1] # persisted[n][1]
    /\ \E k1 \in DOMAIN TxRows(persisted[m][1]), k2 \in DOMAIN TxRows(persisted[n][1]) :
         TxRows(persisted[m][1])[k1].commitment = TxRows(persisted[n][1])[k2].commitment

\* C5 (as stated): the chain assigning leaf indices uniquely and gaplessly per
\* tree, no two rows have the same (token, leafIndex), also when events
\* carry a mint the indexer's table does not know.
C5_LeafIndexUniqueWithinToken ==
  \A i, j \in DOMAIN commitments :
    i # j =>
      <<commitments[i].token, commitments[i].commitment_index>>
        # <<commitments[j].token, commitments[j].commitment_index>>


\* C15 (as stated): a subscription attempt (onLogs called: a subscription
\* registered, or the call failed and the retry timer armed) is made only
\* once the catch-up scan has finished.
C15_SubscribeAfterCatchUp ==
  (subscribed > 0 \/ timers > 0) => catchUp.pc = "done"

\* The catch-up scan has met a failure: the signature listing or a
\* transaction fetch was rejected, or an upsert it issued failed.
CatchUpFailure ==
  \/ catchUp.failed
  \/ \E d \in dropped : d[2] = "catchup"

\* C16: whatever fails during the catch-up scan, the live subscription has
\* been attempted: onLogs was called, and either registered the subscription
\* or armed the retry.
C16_CatchUpBestEffort ==
  (started /\ CatchUpFailure) => (subscribed > 0 \/ timers > 0)

\* The scan lost a batch to the store, then ended on a rejected fetch, and
\* the subscription is registered.
C16_Witness ==
  /\ catchUp.pc = "done"
  /\ catchUp.failed
  /\ \E d \in dropped : d[2] = "catchup"
  /\ subscribed > 0

\* C17 (as stated): whenever the indexer has no live subscription, because
\* onLogs failed or because the registered subscription was lost, a new
\* attempt is pending after the fixed delay.
C17_ResubscribeWhenLost ==
  (started /\ (subscribed = 0 \/ subscriptionLost)) => timers > 0

\* C18: a step in which an upsert fails leaves the index as it was, leaves
\* the failed batch neither pending nor recorded as persisted, and leaves the
\* scan and the subscription going: the scan moves to its next transaction,
\* the notifications and upserts in flight stay.
C18_StoreFailureAbsorbed ==
  [][ dropped' # dropped =>
        LET d == CHOOSE x \in dropped' : x \notin dropped
        IN /\ commitments' = commitments
           /\ persisted' = persisted
           /\ subscribed' = subscribed
           /\ subscriptionLost' = subscriptionLost
           /\ liveQ' = liveQ
           /\ catchUp'.failed = catchUp.failed
           /\ (d[2] = "catchup" =>
                 /\ upserts' = upserts
                 /\ catchUp' = CatchUpAdvance(catchUp)
                 /\ ~(catchUp'.pc = "persisting")
                 /\ (catchUp.pos < Len(catchUp.sigs) =>
                       catchUp'.pc = "fetching" /\ catchUp'.pos = catchUp.pos + 1))
           /\ (d[2] = "live" =>
                 /\ upserts' = upserts \ {d[1]}
                 /\ catchUp' = catchUp) ]_vars

\* The scan's upsert for one transaction failed and its upsert for the next
\* transaction of its list wrote that transaction's rows; an upsert of the
\* subscription failed and the subscription is still registered.
C18_Witness ==
  /\ \E i, j \in DOMAIN catchUp.sigs :
       /\ i < j
       /\ <<catchUp.sigs[i], "catchup">> \in dropped
       /\ PersistedBy(catchUp.sigs[j], "catchup")
       /\ \E r \in DOMAIN commitments :
            commitments[r].transaction_signature = catchUp.sigs[j]
  /\ \E d \in dropped : d[2] = "live"
  /\ subscribed > 0

\* C29: at most one log subscription is registered and at most one resubscribe
\* timer is pending, never both; a step arms a timer only when its subscribe
\* attempt failed (no subscription was registered in it), and a step that
\* registers a subscription leaves no timer pending.
C29_SingleSubscription ==
  /\ [](subscribed <= 1 /\ timers <= 1 /\ subscribed + timers <= 1)
  /\ [][/\ timers' > timers => (subscribed' = subscribed /\ subscribed = 0)
        /\ subscribed' > subscribed => timers' = 0]_vars

\* A subscribe attempt has failed and its timer is pending.
C29_Witness == started /\ subscribed = 0 /\ timers = 1

\* C30 (as stated): every row of the commitment index was written from the
\* logs of a transaction that succeeded; the logs of a failed one, delivered
\* by the subscription or fetched by catch-up, add none.
C30_OnlyCommittedIndexed ==
  \A r \in DOMAIN commitments : ~chainTxs[commitments[r].transaction_signature].err

\* The scan is at its step for transaction sigs[pos].
Scanning == catchUp.pc \in {"fetching", "persisting"}

\* How far catchUpOnce has come: not called, listing, in its loop, returned.
ScanStage(c) ==
  IF c.pc = "none" THEN 0
  ELSE IF c.pc = "listing" THEN 1
  ELSE IF c.pc = "done" THEN 3
  ELSE 2

\* C23: per start the scan runs once and is never re-run; it handles at most
\* 50 signatures, the newest first in the chain's order; it goes to the next
\* transaction only from a fetch that issued no upsert or in the step that
\* settles the upsert it awaits, one position at a time; and, every call it
\* awaits settling, it terminates.
C23_CatchUpBoundedSequentialOnce ==
  /\ []( /\ Len(catchUp.sigs) <= CATCH_UP_LIMIT
         /\ Len(catchUp.sigs) <= Len(chainTxs)
         /\ \A k \in DOMAIN catchUp.sigs : catchUp.sigs[k] = Len(chainTxs) - k + 1
         /\ (catchUp.pc = "none") = ~started
         /\ Scanning => catchUp.pos \in DOMAIN catchUp.sigs
         /\ \A n \in DOMAIN persisted :
              persisted[n][2] = "catchup" =>
                \E k \in 1..catchUp.pos : catchUp.sigs[k] = persisted[n][1] )
  /\ [][ /\ (catchUp.pc = "done" => catchUp' = catchUp)
         /\ ScanStage(catchUp') >= ScanStage(catchUp)
         /\ (Scanning => catchUp'.sigs = catchUp.sigs)
         /\ (Scanning /\ catchUp'.pos # catchUp.pos =>
               /\ catchUp'.pos = catchUp.pos + 1
               /\ catchUp'.pc = "fetching"
               /\ (catchUp.pc = "persisting" =>
                     persisted' # persisted \/ dropped' # dropped))
         /\ (catchUp.pc = "persisting" /\ (persisted' # persisted \/ dropped' # dropped) =>
               catchUp'.pc # "persisting" \/ catchUp'.pos # catchUp.pos) ]_vars
  /\ (started ~> catchUp.pc = "done")

\* Of a history of 51 transactions the scan handled the 50 newest, lost one
\* batch to the store, wrote another, and returned; the oldest transaction's
\* leaf is not in the index.
C23_Witness ==
  /\ Len(chainTxs) = CATCH_UP_LIMIT + 1
  /\ catchUp.pc = "done"
  /\ ~catchUp.failed
  /\ catchUp.pos = CATCH_UP_LIMIT
  /\ \E d \in dropped : d[2] = "catchup"
  /\ \E n \in DOMAIN persisted : persisted[n] = <<2, "catchup">>
  /\ \A r \in DOMAIN commitments : commitments[r].transaction_signature # 1

(***************************************************************************)
(* Claims about the path builder (checked under SpecPath)                  *)
(***************************************************************************)
\* a XOR b on naturals, bit by bit.
RECURSIVE BitXor(_, _)
BitXor(a, b) ==
  IF a = 0 /\ b = 0 THEN 0
  ELSE ((a + b) % 2) + 2 * BitXor(a \div 2, b \div 2)

\* C10: for a leaf index L in 0..2^26-1 the path builder returns exactly 26
\* entries; at level k it looks up sibling position floor(L / 2^k) XOR 1 and
\* reports position bit floor(L / 2^k) mod 2; L = 5 gives the bits 1, 0, 1
\* and the sibling indices 4, 3, 0 for the first three levels.
C10_PathConstruction ==
  pathResult.done =>
    /\ Len(pathResult.pathElements) = 26
    /\ Len(pathResult.pathIndices) = 26
    /\ Len(pathResult.siblingIndices) = 26
    /\ \A k \in 0..25 :
         /\ pathResult.siblingIndices[k + 1] = BitXor(pathReq.leafIndex \div Pow(2, k), 1)
         /\ pathResult.pathIndices[k + 1] = (pathReq.leafIndex \div Pow(2, k)) % 2
    /\ (pathReq.leafIndex = 5 =>
          /\ SubSeq(pathResult.pathIndices, 1, 3) = <<1, 0, 1>>
          /\ SubSeq(pathResult.siblingIndices, 1, 3) = <<4, 3, 0>>)

C10_Witness ==
  /\ pathResult.done
  /\ pathReq.leafIndex = 5
  /\ SubSeq(pathResult.siblingIndices, 1, 3) = <<4, 3, 0>>

\* The rows of the index that hold leaf index n of token t.
RowsAt(t, n) ==
  {i \in DOMAIN commitments :
     commitments[i].token = t /\ commitments[i].commitment_index = Num(n)}

\* C11 (as stated): the path element at level k is the commitment of the row
\* of the requested token at the level-k sibling index when the index holds
\* such a row, and "0" otherwise; a row of another token never contributes.
\* With commitments at leaves 0, 1, 2 only and L = 5, the elements of the
\* first three levels are "0", "0" and the commitment at leaf 0.
C11_SiblingResolution ==
  pathResult.done =>
    /\ \A k \in 0..25 :
         LET sib == BitXor(pathReq.leafIndex \div Pow(2, k), 1)
         IN IF RowsAt(pathReq.token, sib) = {}
              THEN pathResult.pathElements[k + 1] = <<0>>
              ELSE \E i \in RowsAt(pathReq.token, sib) :
                     pathResult.pathElements[k + 1] = commitments[i].commitment
    /\ ( /\ pathReq.leafIndex = 5
         /\ RowsAt(pathReq.token, 0) # {}
         /\ RowsAt(pathReq.token, 3) = {}
         /\ RowsAt(pathReq.token, 4) = {}
         => /\ pathResult.pathElements[1] = <<0>>
            /\ pathResult.pathElements[2] = <<0>>
            /\ \E i \in RowsAt(pathReq.token, 0) :
                 pathResult.pathElements[3] = commitments[i].commitment )

(***************************************************************************)
(* Claims about the path route (checked under SpecPathRoute)               *)
(***************************************************************************)
\* The request is answered, its leaf index was accepted, and the index holds
\* no row of its token at that leaf index.
AnsweredWithoutLeaf ==
  /\ pathHttp.pc = "done"
  /\ ~InvalidLeafIndex(LeafIndexOf(pathHttp.leafIndexRaw))
  /\ RowsAt(pathHttp.token, pathHttp.leafIndex) = {}

\* C12 (as stated): a path request for a (token, leafIndex) the index holds no
\* row of is answered with the leaf-not-found outcome, never with a success
\* payload.
C12_LeafNotFound ==
  AnsweredWithoutLeaf =>
    /\ pathHttp.status = 404
    /\ pathHttp.body.kind = "leafNotFound"

\* C12 (amended): such a request is never answered with a success payload;
\* it is answered with leaf-not-found once the token's tree state has been
\* read from the chain, and with tree-not-initialized or the generic failure
\* when the tree account is absent or the chain cannot be read.
C12_LeafNotFoundAfterTreeState ==
  AnsweredWithoutLeaf =>
    /\ pathHttp.status # 200
    /\ pathHttp.body.kind # "path"
    /\ pathHttp.body.root = <<>>
    /\ pathHttp.body.commitments = <<>>
    /\ (pathHttp.rootData.kind = "state" =>
          pathHttp.status = 404 /\ pathHttp.body.kind = "leafNotFound")
    /\ (pathHttp.rootData.kind = "null" =>
          pathHttp.status = 404 /\ pathHttp.body.kind = "treeNotInitialized")
    /\ (pathHttp.rootData.kind = "pending" =>
          pathHttp.status = 500 /\ pathHttp.body.kind = "error")

\* Leaf 5 of a token was asked for, the index holding leaves 0..2 of it.
C12_Witness ==
  /\ AnsweredWithoutLeaf
  /\ pathHttp.leafIndex = 5
  /\ RowsAt(pathHttp.token, 2) # {}
  /\ pathHttp.rootData.kind = "state"
  /\ pathHttp.body.kind = "leafNotFound"

(***************************************************************************)
(* Claims about the path route beside the running indexer (checked under   *)
(* SpecPathLive)                                                           *)
(***************************************************************************)
\* C25 (as stated): in every success payload of the path route, each entry of
\* the commitments list has a leaf index below the payload's nextIndex,
\* whatever deposits and indexer writes fall between the request's chain read
\* and its store read.
C25_PathSnapshotConsistent ==
  (pathHttp.pc = "done" /\ pathHttp.status = 200) =>
    \A k \in DOMAIN pathHttp.body.commitments :
      NatOf(pathHttp.body.commitments[k].commitment_index) < pathHttp.body.nextIndex

(***************************************************************************)
(* Claims about the proof route beside the running indexer (checked under  *)
(* SpecProofLive)                                                          *)
(***************************************************************************)
\* C26 (as stated): a success payload of the proof route for commitment c
\* and token t lists entries in ascending order of leaf index, each the
\* (leaf index, commitment) of a row of token t, and among them the entry of
\* the returned leafIndex with commitment c, whatever the indexer writes
\* between the request's two store reads.
C26_ProofContainsLeaf ==
  (proofHttp.pc = "done" /\ proofHttp.status = 200) =>
    LET list == proofHttp.body.commitments
    IN /\ \A j, k \in DOMAIN list :
            j < k => NatOf(list[j].commitment_index) <= NatOf(list[k].commitment_index)
       /\ \A k \in DOMAIN list :
            \E r \in DOMAIN commitments :
              /\ commitments[r].token = proofHttp.token
              /\ commitments[r].commitment_index = list[k].commitment_index
              /\ commitments[r].commitment = list[k].commitment
       /\ \E k \in DOMAIN list :
            /\ list[k].commitment_index = proofHttp.body.leafIndex
            /\ list[k].commitment = CommitmentText(proofHttp.commitment)

(***************************************************************************)
(* Claims about the range route beside the running indexer (checked under  *)
(* SpecRange)                                                              *)
(***************************************************************************)
\* C27 (as stated): whatever the start and end parameters are, an omitted,
\* empty or non-numeric end included, the bounds the range route queries with
\* satisfy 0 <= start <= end <= start + 1000.
C27_RangeBound ==
  rangeHttp.pc \in {"awaitDb", "done"} =>
    /\ 0 <= rangeHttp.start
    /\ rangeHttp.start <= rangeHttp.end
    /\ rangeHttp.end <= rangeHttp.start + MAX_RANGE_SIZE

\* C28 (as stated): in the step that answers a range request with hasMore =
\* false, the table the two queries read holds no row of the request's token
\* with a leaf index at or above end.
C28_HasMoreSound ==
  [][(rangeHttp.pc = "awaitDb" /\ rangeHttp'.pc = "done" /\ ~rangeHttp'.body.hasMore) =>
       \A r \in DOMAIN commitments :
         commitments[r].token = rangeHttp.token =>
           NatOf(commitments[r].commitment_index) < rangeHttp.end]_vars

(***************************************************************************)
(* Claims about the event decoder (checked under SpecEvents)               *)
(***************************************************************************)
\* A line as the program writes it: a known discriminator, the layout that
\* goes with it, all fixed fields and all the declared ciphertext present.
WellFormedLine(l) ==
  /\ l.hasData
  /\ \/ l.disc = DISCRIMINATOR_COMMITMENT /\ ~l.spl /\ l.cut >= 52 /\ l.cut >= 52 + l.encLen
     \/ l.disc = DISCRIMINATOR_SPL_COMMITMENT /\ l.spl /\ l.cut >= 84 /\ l.cut >= 84 + l.encLen

\* The well-formed lines of the batch, in log order.
WellFormedLines == SelectSeq(logBatch.lines, WellFormedLine)

\* C13: a line of another discriminator, a line too short for its layout and
\* a line whose declared ciphertext overruns the buffer give no record; the
\* records are those of the well-formed lines of the batch, whole and in log
\* order, whatever other lines the batch holds.
C13_SelectiveDecoding ==
  decodedRows.done =>
    /\ Len(decodedRows.rows) = Len(WellFormedLines)
    /\ \A k \in DOMAIN decodedRows.rows :
         /\ k <= Len(WellFormedLines)
         /\ decodedRows.rows[k].commitment = ToDecimal(WellFormedLines[k].cm)
         /\ decodedRows.rows[k].encrypted_output
              = ToHex(SubSeq(WellFormedLines[k].enc, 1, WellFormedLines[k].encLen))
         /\ decodedRows.rows[k].transaction_signature = logBatch.transactionSignature

\* A line that overruns its buffer, then a whole one: one record, the second's.
C13_Witness ==
  /\ decodedRows.done
  /\ Len(logBatch.lines) = 2
  /\ logBatch.lines[1].hasData
  /\ logBatch.lines[1].disc = DISCRIMINATOR_COMMITMENT
  /\ logBatch.lines[1].cut < 52 + logBatch.lines[1].encLen
  /\ WellFormedLine(logBatch.lines[2])
  /\ Len(decodedRows.rows) = 1
  /\ decodedRows.rows[1].commitment = ToDecimal(logBatch.lines[2].cm)

\* The mint-to-symbol tables, as the claim reads them.
ExpectedToken(devnet, mint) ==
  IF devnet
    THEN IF mint = "DWvrXGqTYq1SW9ey857z1nXBxSxihwxdFyQfaRunsAXa" THEN "usdc"
         ELSE IF mint \in {"EwtK6Bydxsm4vAvvMiEG3ymtkJ7WToRpQdeV45wB1Qpa",
                           "GykHjnHqwNsFmyY2wFT1drprpm1SZWR69CKPMUSFZBvH"} THEN "yesa"
         ELSE "sol"
    ELSE IF mint = "EPjFWdd5AufqSSqeM2qN1xzybapC8G4wEGGkZwyTDt1v" THEN "usdc"
         ELSE IF mint = "USD1ttGY1N17NEEHLmELoaybftRBUSErhqYiQzvEmuB" THEN "yesa"
         ELSE "sol"

\* C14: the record of a well-formed token-asset line carries the symbol the
\* active network's table gives its mint, and 'sol' when the table does not
\* hold the mint.
C14_TokenFallback ==
  (decodedRows.done /\ Len(decodedRows.rows) = Len(WellFormedLines)) =>
    \A k \in DOMAIN decodedRows.rows :
      WellFormedLines[k].spl =>
        decodedRows.rows[k].token = ExpectedToken(isDevnet, WellFormedLines[k].mint)

\* A mint the active network's table does not hold was filed under 'sol'.
C14_Witness ==
  /\ decodedRows.done
  /\ Len(decodedRows.rows) = Len(WellFormedLines)
  /\ \E k \in DOMAIN decodedRows.rows :
       /\ WellFormedLines[k].spl
       /\ WellFormedLines[k].mint \notin DOMAIN MINT_TO_TOKEN(isDevnet)
       /\ decodedRows.rows[k].token = "sol"

\* C20 (as stated): the record parsed from a well-formed line has as leaf
\* index the little-endian u64 of bytes 8..15, as commitment the decimal
\* rendering of its 32 bytes read big-endian, as ciphertext the hex of the
\* declared number of bytes, and for the token-asset layout the mint of
\* bytes 16..47; the account-state decoder's conversion gives the same decimal.
C20_RecordLayout ==
  decodedRows.done =>
    \A k \in DOMAIN logBatch.lines :
      WellFormedLine(logBatch.lines[k]) =>
        /\ decodedRows.parsed[k].ok
        /\ decodedRows.parsed[k].index = logBatch.lines[k].index \o <<0>>
        /\ decodedRows.parsed[k].commitment = ToDecimal(logBatch.lines[k].cm)
        /\ decodedRows.parsed[k].encryptedOutput
             = ToHex(SubSeq(logBatch.lines[k].enc, 1, logBatch.lines[k].encLen))
        /\ (logBatch.lines[k].spl =>
              decodedRows.parsed[k].mintAddress = logBatch.lines[k].mint)
        /\ bytes32ToDecimalString(Bytes32BE(logBatch.lines[k].cm))
             = decodedRows.parsed[k].commitment

\* null, as a value of a row's mint_address column.
NullMint == "<null>"

\* C21 (as stated): every row filed under the base asset, from a base-asset
\* event or from a token-asset event whose mint the table does not hold, has
\* a null mint_address; only rows of the other tokens carry a mint address.
C21_BaseAssetMintAbsent ==
  decodedRows.done =>
    \A k \in DOMAIN decodedRows.rows :
      decodedRows.rows[k].token = "sol" <=> decodedRows.rows[k].mint_address = NullMint

\* C24 (as stated): on the active network, a well-formed token-asset line
\* that carries the mint the read side resolves for a token t of its
\* allow-list (getMintFromToken(t), t not the base asset) gives a row of token t.
C24_TokenTablesAgree ==
  (decodedRows.done /\ Len(decodedRows.rows) = Len(WellFormedLines)) =>
    \A k \in DOMAIN decodedRows.rows :
      \A t \in ALLOWED_TOKENS \ {"sol"} :
        (WellFormedLines[k].spl /\ getMintFromToken(isDevnet, t) = WellFormedLines[k].mint)
          => decodedRows.rows[k].token = t

(***************************************************************************)
(* Claims about the error responses (checked under SpecErrors)             *)
(***************************************************************************)
\* Two thrown values that differ at most in the text of their messages.
SameButMessage(e1, e2) ==
  /\ e1.kind = e2.kind
  /\ e1.hasTransactionMessage = e2.hasTransactionMessage
  /\ e1.message.defined = e2.message.defined
  /\ e1.transactionMessage.defined = e2.transactionMessage.defined

\* C19 (as stated): on every route, two requests that fail internally with
\* errors differing only in their message text, and are both answered with
\* HTTP 500, get the same body: the body is a fixed text that does not
\* depend on the error.
C19_NoInternalErrorLeak ==
  \A i, j \in DOMAIN errorRuns :
    ( /\ errorRuns[i].route = errorRuns[j].route
      /\ errorRuns[i].status = 500
      /\ errorRuns[j].status = 500
      /\ SameButMessage(errorRuns[i].error, errorRuns[j].error) )
    => errorRuns[i].body = errorRuns[j].body

(***************************************************************************)
(* Specifications                                                          *)
(***************************************************************************)
DecoderIdle == accountInfo = NoInfo /\ decoded = Pending

IndexerIdle ==
  /\ chainTxs = <<>>
  /\ commitments = <<>>
  /\ started = FALSE
  /\ catchUp = NotStarted
  /\ subscribed = 0
  /\ timers = 0
  /\ subscriptionLost = FALSE
  /\ liveQ = {}
  /\ upserts = {}
  /\ persisted = <<>>
  /\ firstWriter = {}
  /\ dropped = {}

PathIdle == pathReq = [token |-> "sol", leafIndex |-> 0] /\ pathResult = NoPath

EventIdle == logBatch = NoBatch /\ decodedRows = NotDecoded

PathRouteIdle == pathHttp = NoPathHttp

ErrorIdle == errorRuns = <<>>

ReadIdle == proofHttp = NoProofHttp /\ rangeHttp = NoRangeHttp

RootIdle ==
  /\ now = 0
  /\ merkleRootCache = <<>>
  /\ requests = <<>>

\* ---- the decoder on its own
DecoderInit ==
  /\ isDevnet = FALSE
  /\ accountInfo \in AccountInfos
  /\ decoded = Pending
  /\ treeAccount = <<>>
  /\ RootIdle
  /\ IndexerIdle
  /\ PathIdle
  /\ EventIdle
  /\ PathRouteIdle
  /\ ErrorIdle
  /\ ReadIdle

\* const accountInfo = await connection.getAccountInfo(treePDA); ... return
FetchMerkleTreeState ==
  /\ decoded.kind = "pending"
  /\ decoded' = fetchMerkleTreeState(accountInfo)
  /\ UNCHANGED <<isDevnet, accountInfo, treeAccount, rootVars, indexerVars, pathVars, eventVars, pathRouteVars, errorVars,
                 readVars>>

DecoderNext == FetchMerkleTreeState

SpecDecoder == DecoderInit /\ [][DecoderNext]_vars

\* ---- the root route, the cache, the clock and the chain
RootInit ==
  /\ isDevnet \in BOOLEAN
  /\ treeAccount \in [TreeKeys(isDevnet) -> [present : BOOLEAN, leaves : {0}]]
  /\ now = 0
  /\ merkleRootCache = [k \in CacheKeys |-> NoEntry]
  /\ requests = <<>>
  /\ DecoderIdle
  /\ IndexerIdle
  /\ PathIdle
  /\ EventIdle
  /\ PathRouteIdle
  /\ ErrorIdle
  /\ ReadIdle

RootNext ==
  \/ \E raw \in RawTokens : RootStart(raw)
  \/ \E i \in DOMAIN requests : RootRpc(i)
  \/ \E i \in DOMAIN requests : RootRpcFail(i)
  \/ \E i \in DOMAIN requests : RootResume(i)
  \/ Tick
  \/ \E pda \in DOMAIN treeAccount : ChainAppend(pda)
  \/ \E pda \in DOMAIN treeAccount : ChainInitialize(pda)

SpecRoot == RootInit /\ [][RootNext]_vars

\* ---- the indexer, the chain's transactions and the store
\* The commitment lists a transaction appends: one leaf, the same commitment
\* twice, two commitments.
DepositShapes == {<<7>>, <<7, 7>>, <<300, 7>>}

Init ==
  /\ isDevnet \in BOOLEAN
  /\ treeAccount = [pda \in IndexerTrees(isDevnet) |-> [present |-> TRUE, leaves |-> 0]]
  /\ IndexerIdle
  /\ DecoderIdle
  /\ RootIdle
  /\ PathIdle
  /\ EventIdle
  /\ PathRouteIdle
  /\ ErrorIdle
  /\ ReadIdle

Next ==
  \/ \E pda \in DOMAIN treeAccount, cms \in DepositShapes : Deposit(pda, cms)
  \/ \E onLogsThrows \in BOOLEAN : StartIndexer(onLogsThrows)
  \/ \E onLogsThrows \in BOOLEAN : Resubscribe(onLogsThrows)
  \/ SubscriptionLost
  \/ \E ok \in BOOLEAN : CatchUpList(ok)
  \/ \E result \in {"tx", "null", "throw"} : CatchUpFetch(result)
  \/ \E ok \in BOOLEAN : CatchUpPersist(ok)
  \/ \E sig \in liveQ : LiveDeliver(sig)
  \/ \E sig \in upserts, ok \in BOOLEAN : LivePersist(sig, ok)

Spec == Init /\ [][Next]_vars

\* ---- the path builder on its own, over a table the indexer has filled
PathInit ==
  /\ isDevnet \in BOOLEAN
  /\ treeAccount = <<>>
  /\ DecoderIdle
  /\ RootIdle
  /\ chainTxs = <<>>
  /\ \E n \in 0..MaxIndexed, m \in 0..1, u \in 0..1 :
       commitments = IndexedTable(isDevnet, n, m) \o UnknownMintRows(isDevnet, u, n + m)
  /\ started = FALSE
  /\ catchUp = NotStarted
  /\ subscribed = 0
  /\ timers = 0
  /\ subscriptionLost = FALSE
  /\ liveQ = {}
  /\ upserts = {}
  /\ persisted = <<>>
  /\ firstWriter = {}
  /\ dropped = {}
  /\ pathReq \in [token : {"sol", "usdc"}, leafIndex : LeafInputs]
  /\ pathResult = NoPath
  /\ EventIdle
  /\ PathRouteIdle
  /\ ErrorIdle
  /\ ReadIdle

\* getPathForLeafIndex(db, token, leafIndex), the store answering its query.
GetPathForLeafIndex(answer) ==
  /\ ~pathResult.done
  /\ pathResult' =
       [answer |-> answer]
         @@ getPathForLeafIndex(StoreSelect(commitments, answer), pathReq.token,
                                pathReq.leafIndex)
  /\ UNCHANGED <<pathReq, isDevnet, treeAccount, decoderVars, rootVars, indexerVars,
                 eventVars, pathRouteVars, errorVars, readVars>>

PathNext == \E answer \in StoreAnswers : GetPathForLeafIndex(answer)

SpecPath == PathInit /\ [][PathNext]_vars

\* ---- processLogLines on its own, over batches of whole and broken lines
EventInit ==
  /\ isDevnet \in BOOLEAN
  /\ treeAccount = <<>>
  /\ logBatch \in [lines : Batches, transactionSignature : {1, 2}]
  /\ decodedRows = NotDecoded
  /\ DecoderIdle
  /\ RootIdle
  /\ IndexerIdle
  /\ PathIdle
  /\ PathRouteIdle
  /\ ErrorIdle
  /\ ReadIdle

\* const rows = processLogLines(logLines, transactionSignature)
ProcessLogLines ==
  /\ ~decodedRows.done
  /\ decodedRows' =
       [ done |-> TRUE,
         rows |-> processLogLines(isDevnet, logBatch.lines, logBatch.transactionSignature),
         parsed |-> [k \in DOMAIN logBatch.lines |-> ParseOfLine(logBatch.lines[k])] ]
  /\ UNCHANGED <<logBatch, isDevnet, treeAccount, decoderVars, rootVars, indexerVars,
                 pathVars, pathRouteVars, errorVars, readVars>>

EventNext == ProcessLogLines

SpecEvents == EventInit /\ [][EventNext]_vars

\* ---- the path route, over a table the indexer has filled
PathRouteInit ==
  /\ isDevnet \in BOOLEAN
  /\ treeAccount \in [TreeKeys(isDevnet) -> [present : BOOLEAN, leaves : {MaxIndexed}]]
  /\ DecoderIdle
  /\ RootIdle
  /\ chainTxs = <<>>
  /\ \E n \in 0..MaxIndexed, m \in 0..1, u \in 0..1 :
       commitments = IndexedTable(isDevnet, n, m) \o UnknownMintRows(isDevnet, u, n + m)
  /\ started = FALSE
  /\ catchUp = NotStarted
  /\ subscribed = 0
  /\ timers = 0
  /\ subscriptionLost = FALSE
  /\ liveQ = {}
  /\ upserts = {}
  /\ persisted = <<>>
  /\ firstWriter = {}
  /\ dropped = {}
  /\ PathIdle
  /\ EventIdle
  /\ ErrorIdle
  /\ ReadIdle
  /\ \E rawToken \in RawTokens, leafIndexRaw \in LeafIndexInputs :
       pathHttp = [NoPathHttp EXCEPT !.rawToken = rawToken, !.leafIndexRaw = leafIndexRaw,
                                     !.pc = "start"]

PathRouteNext ==
  \/ PathStart
  \/ PathRpc
  \/ PathRpcFail
  \/ \E answer \in StoreAnswers : PathDb(answer)

SpecPathRoute == PathRouteInit /\ [][PathRouteNext]_vars

\* ---- the routes' catch blocks on their own
ErrorInit ==
  /\ isDevnet = FALSE
  /\ ReadIdle
  /\ treeAccount = <<>>
  /\ errorRuns = <<>>
  /\ DecoderIdle
  /\ RootIdle
  /\ IndexerIdle
  /\ PathIdle
  /\ EventIdle
  /\ PathRouteIdle

ErrorNext == \E route \in Routes, error \in ThrownErrors : HandleError(route, error)

SpecErrors == ErrorInit /\ [][ErrorNext]_vars

\* ---- the catch-up scan over a history that exists at startup; every call
\* the scan awaits settles. The upsert is in flight exactly while the scan is
\* at "persisting", and the last conjunct of SpecCatchUp is weak fairness of
\* CatchUpPersist written with that condition in place of ENABLED.
CatchUpInit ==
  /\ isDevnet \in BOOLEAN
  /\ chainTxs \in {ChainOfLen(n) : n \in ChainLens}
  /\ treeAccount =
       [pda \in IndexerTrees(isDevnet) |->
          [present |-> TRUE, leaves |-> IF pda = NoMint THEN Min(Len(chainTxs), 3) ELSE 0]]
  /\ commitments = <<>>
  /\ started = FALSE
  /\ catchUp = NotStarted
  /\ subscribed = 0
  /\ timers = 0
  /\ subscriptionLost = FALSE
  /\ liveQ = {}
  /\ upserts = {}
  /\ persisted = <<>>
  /\ firstWriter = {}
  /\ dropped = {}
  /\ DecoderIdle
  /\ RootIdle
  /\ PathIdle
  /\ EventIdle
  /\ PathRouteIdle
  /\ ErrorIdle
  /\ ReadIdle

CatchUpNext ==
  \/ \E onLogsThrows \in BOOLEAN : StartIndexer(onLogsThrows)
  \/ \E onLogsThrows \in BOOLEAN : Resubscribe(onLogsThrows)
  \/ \E ok \in BOOLEAN : CatchUpList(ok)
  \/ \E result \in {"tx", "null", "throw"} : CatchUpFetch(result)
  \/ \E ok \in BOOLEAN : CatchUpPersist(ok)

SpecCatchUp ==
  /\ CatchUpInit
  /\ [][CatchUpNext]_vars
  /\ WF_vars(\E ok \in BOOLEAN : CatchUpList(ok))
  /\ WF_vars(\E result \in {"tx", "null", "throw"} : CatchUpFetch(result))
  /\ \/ []<>(catchUp.pc # "persisting")
     \/ []<><<\E ok \in BOOLEAN : CatchUpPersist(ok)>>_vars

\* ---- one path request beside the running indexer: deposits land and are
\* indexed from the subscription while the request is in flight
PathLiveInit ==
  /\ isDevnet \in BOOLEAN
  /\ treeAccount = [pda \in IndexerTrees(isDevnet) |-> [present |-> TRUE, leaves |-> 0]]
  /\ IndexerIdle
  /\ DecoderIdle
  /\ RootIdle
  /\ PathIdle
  /\ EventIdle
  /\ ErrorIdle
  /\ ReadIdle
  /\ \E rawToken \in {NoToken, "usdc"} :
       pathHttp = [NoPathHttp EXCEPT !.rawToken = rawToken, !.leafIndexRaw = <<"0">>,
                                     !.pc = "start"]

PathLiveNext ==
  \/ \E pda \in {NoMint, MINT_BY_TOKEN(isDevnet).usdc}, cms \in {<<7>>, <<300, 7>>} :
       Deposit(pda, cms)
  \/ \E onLogsThrows \in BOOLEAN : StartIndexer(onLogsThrows)
  \/ \E onLogsThrows \in BOOLEAN : Resubscribe(onLogsThrows)
  \/ \E sig \in liveQ : LiveDeliver(sig)
  \/ \E sig \in upserts, ok \in BOOLEAN : LivePersist(sig, ok)
  \/ PathStart
  \/ PathRpc
  \/ PathRpcFail
  \/ \E answer \in StoreAnswers : PathDb(answer)

SpecPathLive == PathLiveInit /\ [][PathLiveNext]_vars

\* ---- one proof request beside the running indexer
ProofLiveInit ==
  /\ isDevnet \in BOOLEAN
  /\ treeAccount = [pda \in IndexerTrees(isDevnet) |-> [present |-> TRUE, leaves |-> 0]]
  /\ IndexerIdle
  /\ DecoderIdle
  /\ RootIdle
  /\ PathIdle
  /\ EventIdle
  /\ PathRouteIdle
  /\ ErrorIdle
  /\ rangeHttp = NoRangeHttp
  /\ \E rawToken \in {NoToken, "usdc"},
        commitment \in {<<"7">>, <<"3", "0", "0">>, <<"0", "7">>, <<"7", "x">>, <<>>} :
       proofHttp = [NoProofHttp EXCEPT !.rawToken = rawToken, !.commitment = commitment,
                                       !.pc = "start"]

ProofLiveNext ==
  \/ \E pda \in {NoMint, MINT_BY_TOKEN(isDevnet).usdc}, cms \in {<<7>>, <<300, 7>>} :
       Deposit(pda, cms)
  \/ \E onLogsThrows \in BOOLEAN : StartIndexer(onLogsThrows)
  \/ \E onLogsThrows \in BOOLEAN : Resubscribe(onLogsThrows)
  \/ \E sig \in liveQ : LiveDeliver(sig)
  \/ \E sig \in upserts, ok \in BOOLEAN : LivePersist(sig, ok)
  \/ ProofStart
  \/ \E answer \in StoreAnswers : ProofRow(answer)
  \/ ProofRpc
  \/ ProofRpcFail
  \/ \E answer \in StoreAnswers : ProofDb(answer)

SpecProofLive == ProofLiveInit /\ [][ProofLiveNext]_vars

\* ---- one range request beside the running indexer
RangeStarts == {NotAString, <<"0">>, <<"-", "5">>, <<"2", "5", "0", "0", "0">>}

RangeEnds == {NotAString, <<>>, <<"x">>, <<"1">>, <<"5", "0", "0", "0">>}

RangeInit ==
  /\ isDevnet \in BOOLEAN
  /\ treeAccount = [pda \in IndexerTrees(isDevnet) |-> [present |-> TRUE, leaves |-> 0]]
  /\ IndexerIdle
  /\ DecoderIdle
  /\ RootIdle
  /\ PathIdle
  /\ EventIdle
  /\ PathRouteIdle
  /\ ErrorIdle
  /\ proofHttp = NoProofHttp
  /\ \E startRaw \in RangeStarts, endRaw \in RangeEnds :
       rangeHttp = [NoRangeHttp EXCEPT !.startRaw = startRaw, !.endRaw = endRaw,
                                       !.pc = "start"]

RangeNext ==
  \/ \E cms \in {<<7>>, <<300>>} : Deposit(NoMint, cms)
  \/ \E onLogsThrows \in BOOLEAN : StartIndexer(onLogsThrows)
  \/ \E onLogsThrows \in BOOLEAN : Resubscribe(onLogsThrows)
  \/ \E sig \in liveQ : LiveDeliver(sig)
  \/ \E sig \in upserts, ok \in BOOLEAN : LivePersist(sig, ok)
  \/ RangeStart
  \/ \E countOk \in BOOLEAN, answer \in StoreAnswers : RangeDb(countOk, answer)

SpecRange == RangeInit /\ [][RangeNext]_vars

\* ---- the indexer on a chain where transactions may fail
FailedTxInit ==
  /\ isDevnet \in BOOLEAN
  /\ treeAccount = [pda \in IndexerTrees(isDevnet) |-> [present |-> TRUE, leaves |-> 0]]
  /\ IndexerIdle
  /\ DecoderIdle
  /\ RootIdle
  /\ PathIdle
  /\ EventIdle
  /\ PathRouteIdle
  /\ ErrorIdle
  /\ ReadIdle

FailedTxNext ==
  \/ \E pda \in {NoMint, MINT_BY_TOKEN(isDevnet).usdc}, cms \in {<<7>>, <<300>>} :
       Deposit(pda, cms)
  \/ \E pda \in {NoMint, MINT_BY_TOKEN(isDevnet).usdc}, cms \in {<<7>>, <<300>>} :
       FailedDeposit(pda, cms)
  \/ \E onLogsThrows \in BOOLEAN : StartIndexer(onLogsThrows)
  \/ \E onLogsThrows \in BOOLEAN : Resubscribe(onLogsThrows)
  \/ \E ok \in BOOLEAN : CatchUpList(ok)
  \/ \E result \in {"tx", "null", "throw"} : CatchUpFetch(result)
  \/ \E ok \in BOOLEAN : CatchUpPersist(ok)
  \/ \E sig \in liveQ : LiveDeliver(sig)
  \/ \E sig \in upserts, ok \in BOOLEAN : LivePersist(sig, ok)

SpecFailedTx == FailedTxInit /\ [][FailedTxNext]_vars

====
